---- MODULE Spec2Model ----
(***************************************************************************)
(* Resume screening: the rule-based RealisticResumeScreener                *)
(* (src/realistic_screener.py) and the rule-based helpers of LLMScreener   *)
(* (src/core/llm_screener.py), the ranking of scored candidates by         *)
(* DecisionMakerAgent (src/agents/decision_agent.py), the batch loops of   *)
(* LLMScreener and EmailAgent (src/agents/email_agent/email_agent.py), the *)
(* grade HRGraderAgent (src/agents/grader_agent.py) reads from a model     *)
(* response, process_folder, analyze_resume of the web wrapper             *)
(* (src/web_app.py), the cycles and restarts of an EmailAgent with its     *)
(* run_once, the hiring decision of DecisionMakerAgent, and the way of a   *)
(* resume through SentenceClassifierAgent                                  *)
(* (src/agents/classifier_agent.py) to the grader.                         *)
(*                                                                         *)
(* A text is a sequence of characters; a character is a one-character      *)
(* string, or the name of a code point that a TLA+ string cannot hold.     *)
(* Regular expressions are modelled by matchers that accept exactly the    *)
(* language of the pattern in the source.                                  *)
(***************************************************************************)
EXTENDS Integers, Sequences, FiniteSets, TLC

VARIABLES
    skill_weights,          \* RealisticResumeScreener.skill_weights (insertion-ordered dict)
    position_requirements,  \* RealisticResumeScreener.position_requirements
    mode,                   \* which screener the session uses: "rule_based" or "llm"
    texts,                  \* the resume texts handed to the screener, in order
    position,               \* the position identifier handed to the screener
    skills_arg,             \* a skill list handed directly to calculate_position_match
    graded,                 \* one record per completed RealisticResumeScreener.grade_resume call
    extracted,              \* one skill list per completed LLMScreener._extract_skills_rule_based call
    matches,                \* one position match per text whose skills have been matched
    direct_match            \* <<m>> once the call on skills_arg has returned m; <<>> before

\* DecisionMakerAgent.select_top_candidates (src/agents/decision_agent.py)
VARIABLES
    graded_resumes,         \* the caller's list handed to select_top_candidates
    caller_copy,            \* the list as the caller built it, before the call
    n_given,                \* FALSE when the caller leaves n to its default None
    n_arg,                  \* the n the caller passes (read only when n_given)
    top_candidates          \* <<result>> once select_top_candidates has returned; <<>> before

screenerVars == <<skill_weights, position_requirements, mode, texts, position,
                  skills_arg, graded, extracted, matches, direct_match>>

rankingVars == <<graded_resumes, caller_copy, n_given, n_arg, top_candidates>>

\* LLMScreener.batch_process (src/core/llm_screener.py) and
\* EmailAgent.process_resumes (src/agents/email_agent/email_agent.py)
VARIABLES
    batch_kind,             \* "folder": batch_process; "email": process_resumes
    batch_input,            \* the files of the folder, or the emails with their attachments
    cursor,                 \* <<i, j>>: the loop is at file i, or at attachment j of email i
    results,                \* the list `results` of the running call
    batch_status            \* "running", "returned", or "raised" (an exception left the call)

batchVars == <<batch_kind, batch_input, cursor, results, batch_status>>

\* EmailAgent.check_for_new_resumes (src/agents/email_agent/email_agent.py)
VARIABLES
    inbox,                  \* the emails the IMAP search returns, oldest first
    ignore_processed,       \* the argument ignore_processed
    processed_emails,       \* EmailAgent.processed_emails
    intake_pos,             \* the place in email_ids[-50:] the loop is at
    new_resumes,            \* the list `new_resumes` of the running call
    intake_status,          \* "idle", "running" or "returned"
    returned_resumes        \* what check_for_new_resumes returned

intakeVars == <<inbox, ignore_processed, processed_emails, intake_pos,
                new_resumes, intake_status, returned_resumes>>

\* HRGraderAgent.grade_and_summarize (src/agents/grader_agent.py) and the
\* score LLMScreener reports from it
VARIABLES
    generator,              \* which self.generate the grader runs: "mock" or "gpt"
    response,               \* the text the model returned
    grading_result,         \* <<grade>> once grade_and_summarize has returned; <<>> before
    grader_status,          \* "idle", "called", "returned" or "raised"
    scores                  \* the scores LLMScreener has reported from the grade

graderVars == <<generator, response, grading_result, grader_status, scores>>

\* RealisticResumeScreener.process_folder (src/realistic_screener.py)
VARIABLES
    folder,                 \* the files os.listdir returns, in its order
    target,                 \* target_position
    folder_pos,             \* index of the next file of the loop
    folder_results,         \* the local list `results`
    folder_status           \* "idle", "running" or "returned"

folderVars == <<folder, target, folder_pos, folder_results, folder_status>>

\* ResumeScreenerWebWrapper.analyze_resume (src/web_app.py)
VARIABLES
    web_text,               \* the text handed to analyze_resume
    web_position,           \* its position argument
    analysis,               \* <<the dict it returned>>; <<>> before
    web_status              \* "idle", "called", "returned" or "shown"

webVars == <<web_text, web_position, analysis, web_status>>

\* The life of an EmailAgent: cycles of check_for_new_resumes and restarts
\* (src/agents/email_agent/email_agent.py)
VARIABLES
    mailbox,                \* the emails of the IMAP folder, oldest first
    agent_processed,        \* self.processed_emails of the running agent
    processed_file,         \* "processed_emails" of processed_emails.json
    known_before,           \* the ids recorded before the latest cycle began
    cycle_forced,           \* ignore_processed of the latest cycle
    cycle_saved,            \* the ids save_processed_email got in the latest cycle
    cycle_returned          \* what the latest cycle returned

agentVars == <<mailbox, agent_processed, processed_file, known_before,
               cycle_forced, cycle_saved, cycle_returned>>

\* One run_once of the EmailAgent after check_for_new_resumes has returned
\* (src/agents/email_agent/email_agent.py)
VARIABLES
    minimum_score,          \* config["screening"]["minimum_score"]
    automatic_response,     \* config["screening"]["automatic_response"]
    send_responses,         \* the argument of run_once
    total_emails,           \* len(new_resumes)
    run_pos,                \* the email or the result the run is at
    run_results,            \* results
    responses_sent,         \* the counter of step 3
    deliveries,             \* what send_email_response returned, call by call
    run_status,             \* "idle", "processing", "sending", "saving", "returned"
    summary                 \* what run_once returned

runVars == <<minimum_score, automatic_response, send_responses, total_emails,
             run_pos, run_results, responses_sent, deliveries, run_status, summary>>

\* LLMScreener.make_hiring_decision and DecisionMakerAgent.make_decision
\* (src/core/llm_screener.py, src/agents/decision_agent.py)
VARIABLES
    decision_config,        \* the config the DecisionMakerAgent was made with
    gpt_outcome,            \* what the call of the GPT model does
    candidates,             \* the list handed to make_decision
    decision,               \* what make_decision returned
    decision_status         \* "idle", "called", "returned", "raised"

decisionVars == <<decision_config, gpt_outcome, candidates, decision, decision_status>>

\* The way of a resume to the grader: LLMScreener.process_resume with
\* SentenceClassifierAgent.process_resume, and the wrapper
\* LLMScreener.grade_resume (src/core/llm_screener.py,
\* src/agents/classifier_agent.py)
VARIABLES
    entry,                  \* "process_resume" or "grade_resume"
    use_mock,               \* the classifier has no model and classifies by rule
    remove_personal_info,   \* config.remove_personal_info
    sentences,              \* the sentences of the resume
    classification,         \* what the classifier's process_resume returned
    grader_input,           \* the text handed to grade_and_summarize
    pipeline_status         \* "idle", "parsed", "classified", "graded"

pipelineVars == <<entry, use_mock, remove_personal_info, sentences, classification,
                  grader_input, pipeline_status>>

vars == <<screenerVars, rankingVars, batchVars, intakeVars, graderVars, folderVars, webVars,
          agentVars, runVars, decisionVars, pipelineVars>>

-----------------------------------------------------------------------------
(* Characters and str.lower() / str.upper() / str.swapcase()                *)

\* The characters of a string literal, one per element.
Chars(s) == [i \in 1..Len(s) |-> SubSeq(s, i, i)]

Range(f) == {f[i] : i \in DOMAIN f}

UpperAlpha == Chars("ABCDEFGHIJKLMNOPQRSTUVWXYZ")
LowerAlpha == Chars("abcdefghijklmnopqrstuvwxyz")
DigitChars == Chars("0123456789")

\* LATIN SMALL LETTER DOTLESS I: a lowercase letter whose uppercase is "I".
\* Python: 'ı'.lower() == 'ı', 'ı'.upper() == 'I', 'I'.lower() == 'i'.
DotlessI == "U+0131"

AsciiLetters == Range(UpperAlpha) \cup Range(LowerAlpha)
Letters == AsciiLetters \cup {DotlessI}

LowerMap == [c \in Range(UpperAlpha) |->
                LowerAlpha[CHOOSE i \in 1..26 : UpperAlpha[i] = c]]
UpperMap == [c \in Range(LowerAlpha) \cup {DotlessI} |->
                IF c = DotlessI THEN "I"
                ELSE UpperAlpha[CHOOSE i \in 1..26 : LowerAlpha[i] = c]]

LowerChar(c) == IF c \in DOMAIN LowerMap THEN LowerMap[c] ELSE c
UpperChar(c) == IF c \in DOMAIN UpperMap THEN UpperMap[c] ELSE c
SwapChar(c) == IF c \in DOMAIN LowerMap THEN LowerMap[c] ELSE UpperChar(c)

\* str.lower(), str.upper(), str.swapcase() on a text.
Lower(t) == [i \in 1..Len(t) |-> LowerChar(t[i])]
Upper(t) == [i \in 1..Len(t) |-> UpperChar(t[i])]
SwapCase(t) == [i \in 1..Len(t) |-> SwapChar(t[i])]

\* str.lower() on a TLA+ string (a position identifier).
RECURSIVE StrLower(_)
StrLower(s) == IF s = "" THEN ""
               ELSE LowerChar(SubSeq(s, 1, 1)) \o StrLower(SubSeq(s, 2, Len(s)))

\* re: \d, \s and \w on the model's alphabet.
IsDigit(c) == c \in Range(DigitChars)
IsSpace(c) == c \in {" ", "\n", "\t"}
IsWordChar(c) == c \in Letters \/ IsDigit(c) \/ c = "_"

DigitValue(c) == (CHOOSE i \in 1..10 : DigitChars[i] = c) - 1

-----------------------------------------------------------------------------
(* Matching                                                                 *)

\* The literal k occurs in t at position i.
MatchAt(t, i, k) ==
    /\ i >= 1
    /\ i + Len(k) - 1 <= Len(t)
    /\ \A j \in 1..Len(k) : t[i + j - 1] = k[j]

\* Python's `k in t` for a non-empty string k (the first character is
\* compared before the rest).
Contains(t, k) == \E i \in 1..(Len(t) - Len(k) + 1) : t[i] = k[1] /\ MatchAt(t, i, k)

\* re's \b before position i of t (i = Len(t) + 1 is the end of the text).
WordAt(t, i) == i >= 1 /\ i <= Len(t) /\ IsWordChar(t[i])
WordBoundary(t, i) == WordAt(t, i - 1) # WordAt(t, i)

\* A search for k that takes only whitespace and the ends of the text as the
\* limits of a word.
SearchSpaceDelimited(t, k) ==
    \E i \in 1..(Len(t) - Len(k) + 1) :
        /\ MatchAt(t, i, k)
        /\ i = 1 \/ IsSpace(t[i - 1])
        /\ i + Len(k) > Len(t) \/ IsSpace(t[i + Len(k)])

\* re.search(r'\b' + re.escape(k) + r'\b', t) finds a match.
SearchWord(t, k) ==
    \E i \in 1..(Len(t) - Len(k) + 1) :
        /\ t[i] = k[1]
        /\ MatchAt(t, i, k)
        /\ WordBoundary(t, i)
        /\ WordBoundary(t, i + Len(k))

\* The first position at or after i that is not matched by \s* / \d*.
RECURSIVE SkipSpace(_, _)
SkipSpace(t, i) == IF i <= Len(t) /\ IsSpace(t[i]) THEN SkipSpace(t, i + 1) ELSE i

RECURSIVE SkipDigits(_, _)
SkipDigits(t, i) == IF i <= Len(t) /\ IsDigit(t[i]) THEN SkipDigits(t, i + 1) ELSE i

\* int() of the digits t[i..j-1].
RECURSIVE IntOf(_, _, _)
IntOf(t, i, j) == IF j <= i THEN 0
                  ELSE 10 * IntOf(t, i, j - 1) + DigitValue(t[j - 1])

-----------------------------------------------------------------------------
(* The patterns of grade_resume                                             *)

\* r'(\d+)\s*years?\s*(?:of)?\s*experience' matched at position i of t: the
\* position after the match, 0 when there is no match at i. Every quantifier
\* is followed by a character it cannot match, so the greedy choice is the
\* only one.
YearMatchEnd(t, i) ==
    LET d == SkipDigits(t, i)
        a == SkipSpace(t, d)
        b == a + 4
        c == IF MatchAt(t, b, Chars("s")) THEN b + 1 ELSE b
        e == SkipSpace(t, c)
        f == IF MatchAt(t, e, Chars("of")) THEN e + 2 ELSE e
        g == SkipSpace(t, f)
    IN  IF /\ d > i
           /\ MatchAt(t, a, Chars("year"))
           /\ MatchAt(t, g, Chars("experience"))
        THEN g + 10
        ELSE 0

\* The positions where re.findall of that pattern finds its matches. A match
\* starts at the first digit of a run of digits (the rest of the pattern is
\* the same from every digit of the run, and the scan goes left to right),
\* and it holds no other digit, so the matches do not overlap.
YearMatchStarts(t) ==
    {i \in 1..Len(t) :
        /\ IsDigit(t[i])
        /\ ~(i > 1 /\ IsDigit(t[i - 1]))
        /\ YearMatchEnd(t, i) > 0}

\* The elements of a finite set of numbers, ascending.
RECURSIVE Ascending(_)
Ascending(S) ==
    IF S = {} THEN <<>>
    ELSE LET m == CHOOSE x \in S : \A y \in S : x <= y
         IN  <<m>> \o Ascending(S \ {m})

\* re.findall(pattern, t): the captured numbers, left to right.
FindYears(t) ==
    LET starts == Ascending(YearMatchStarts(t))
    IN  [n \in DOMAIN starts |-> IntOf(t, starts[n], SkipDigits(t, starts[n]))]

\* r'(?:19|20)\d{2}' matched at position i of t.
YearAt(t, i) ==
    /\ i + 3 <= Len(t)
    /\ IsDigit(t[i])
    /\ MatchAt(t, i, Chars("19")) \/ MatchAt(t, i, Chars("20"))
    /\ IsDigit(t[i + 2])
    /\ IsDigit(t[i + 3])

\* re.findall(r'(?:19|20)\d{2}[-\s]\s*(?:19|20)\d{2}', t) is not empty.
HasDateRange(t) ==
    \E i \in 1..Len(t) :
        /\ YearAt(t, i)
        /\ i + 4 <= Len(t)
        /\ t[i + 4] = "-" \/ IsSpace(t[i + 4])
        /\ YearAt(t, SkipSpace(t, i + 5))

RECURSIVE SumSeq(_)
SumSeq(q) == IF q = <<>> THEN 0 ELSE Head(q) + SumSeq(Tail(q))

\* A cap that lets every value through.
Uncapped(a, b) == a

Min(a, b) == IF a <= b THEN a ELSE b
Max(a, b) == IF a >= b THEN a ELSE b

\* The number of keywords of the list kws that occur in t.
CountContained(t, kws) == Cardinality({i \in DOMAIN kws : Contains(t, Chars(kws[i]))})

-----------------------------------------------------------------------------
(* RealisticResumeScreener.__init__                                         *)

SW(s, w) == [skill |-> s, weight |-> w]

InitSkillWeights == <<
    SW("python", 8), SW("java", 8), SW("javascript", 6), SW("aws", 10), SW("docker", 8),
    SW("kubernetes", 10), SW("sql", 6), SW("react", 5), SW("node.js", 5), SW("tensorflow", 8),
    SW("pytorch", 8), SW("machine learning", 12), SW("ai", 12), SW("cloud", 8),
    SW("devops", 10), SW("azure", 6), SW("gcp", 6), SW("linux", 5), SW("git", 4),
    SW("spring", 6), SW("django", 5), SW("flask", 4), SW("fastapi", 4), SW("mongodb", 4),
    SW("postgresql", 4), SW("mysql", 4), SW("redis", 3), SW("kafka", 4), SW("spark", 5) >>

\* A position table whose full_stack entry lists "html" (as the table of
\* LLMScreener does), a skill that skill_weights has no entry for.
PositionRequirementsWithHtml ==
    [p \in {"software_engineer", "data_scientist", "devops", "full_stack"} |->
        CASE p = "software_engineer" -> <<"python", "java", "javascript", "aws", "docker", "sql">>
          [] p = "data_scientist" -> <<"python", "machine learning", "tensorflow", "pytorch", "sql">>
          [] p = "devops" -> <<"aws", "docker", "kubernetes", "linux", "git", "cloud">>
          [] p = "full_stack" -> <<"javascript", "react", "node.js", "html">>]

\* self.position_requirements as __init__ builds it.
InitPositionRequirements ==
    [p \in {"software_engineer", "data_scientist", "devops", "full_stack"} |->
        CASE p = "software_engineer" -> <<"python", "java", "javascript", "aws", "docker", "sql">>
          [] p = "data_scientist" -> <<"python", "machine learning", "tensorflow", "pytorch", "sql">>
          [] p = "devops" -> <<"aws", "docker", "kubernetes", "linux", "git", "cloud">>
          [] p = "full_stack" -> <<"python", "javascript", "react", "node.js", "aws", "docker">>]

\* A lookup that falls back to the software_engineer list for a position
\* the table has no entry for.
RequiredSkillsOrDefault(pr, target_position) ==
    IF target_position \in DOMAIN pr THEN pr[target_position] ELSE pr["software_engineer"]

\* dict.get(target_position, []) on the position table pr.
RequiredSkills(pr, target_position) ==
    IF target_position \in DOMAIN pr THEN pr[target_position] ELSE <<>>

-----------------------------------------------------------------------------
(* RealisticResumeScreener.grade_resume                                     *)

BaseScore == 40

\* 1. Experience section, before the cap.
experience_score(text, text_lower) ==
    LET year_matches == FindYears(text_lower)
        years == SumSeq(SubSeq(year_matches, 1, Min(3, Len(year_matches))))
        section ==
            IF Contains(text_lower, Chars("experience"))
            THEN 10 + (IF year_matches # <<>>
                       THEN (IF years >= 10 THEN 15
                             ELSE IF years >= 5 THEN 12
                             ELSE IF years >= 3 THEN 8
                             ELSE IF years >= 1 THEN 5
                             ELSE 0)
                       ELSE (IF HasDateRange(text) THEN 7 ELSE 0))
            ELSE 0
        senior ==
            IF \E w \in {"senior", "lead", "principal", "manager", "director"} :
                   SearchWord(text_lower, Chars(w))
            THEN 8 ELSE 0
    IN  section + senior

TopUniversities == <<"stanford", "mit", "harvard", "caltech", "princeton",
                     "cambridge", "oxford", "carnegie", "berkeley">>

\* The points of the degree chain of grade_resume: 15 for a doctorate, 10
\* for a master's, 7 for a bachelor's, 5 for a mention of education, else 0.
education_degree(text_lower) ==
    IF Contains(text_lower, Chars("phd")) \/ Contains(text_lower, Chars("doctorate"))
    THEN 15
    ELSE IF \/ Contains(text_lower, Chars("master"))
            \/ Contains(text_lower, Chars("ms"))
            \/ Contains(text_lower, Chars("m.sc"))
    THEN 10
    ELSE IF \/ Contains(text_lower, Chars("bachelor"))
            \/ Contains(text_lower, Chars("bs"))
            \/ Contains(text_lower, Chars("b.tech"))
    THEN 7
    ELSE IF Contains(text_lower, Chars("education"))
    THEN 5
    ELSE 0

\* 2. Education, before the cap.
education_score(text_lower) ==
    education_degree(text_lower) + 3 * CountContained(text_lower, TopUniversities)

\* A loop that also lists every required skill, found in the text or not.
RECURSIVE SkillsLoopListingRequired(_, _, _, _)
SkillsLoopListingRequired(sw, required_skills, text_lower, i) ==
    IF i > Len(sw) THEN [skills_found |-> <<>>, skills_score |-> 0]
    ELSE LET rest == SkillsLoopListingRequired(sw, required_skills, text_lower, i + 1)
         IN  IF \/ SearchWord(text_lower, Chars(sw[i].skill))
                \/ sw[i].skill \in Range(required_skills)
             THEN [skills_found |-> <<sw[i].skill>> \o rest.skills_found,
                   skills_score |-> sw[i].weight + rest.skills_score]
             ELSE rest

\* 3. The loop over self.skill_weights.items() from entry i on, in insertion
\* order: the skills found and the accumulated skills_score.
RECURSIVE SkillsLoop(_, _, _, _)
SkillsLoop(sw, required_skills, text_lower, i) ==
    IF i > Len(sw) THEN [skills_found |-> <<>>, skills_score |-> 0]
    ELSE LET rest == SkillsLoop(sw, required_skills, text_lower, i + 1)
         IN  IF SearchWord(text_lower, Chars(sw[i].skill))
             THEN [skills_found |-> <<sw[i].skill>> \o rest.skills_found,
                   skills_score |-> sw[i].weight
                                    + (IF sw[i].skill \in Range(required_skills) THEN 2 ELSE 0)
                                    + rest.skills_score]
             ELSE rest

\* sum(sorted(ws, reverse=True)[:n]) for a sequence ws of numbers.
RECURSIVE TopSum(_, _)
TopSum(ws, n) ==
    IF n = 0 \/ ws = <<>> THEN 0
    ELSE LET m == CHOOSE i \in DOMAIN ws : \A j \in DOMAIN ws : ws[j] <= ws[i]
         IN  ws[m] + TopSum(SubSeq(ws, 1, m - 1) \o SubSeq(ws, m + 1, Len(ws)), n - 1)

max_possible_skills(sw) == TopSum([i \in DOMAIN sw |-> sw[i].weight], 10)

FaangCompanies == <<"google", "microsoft", "amazon", "facebook", "apple",
                    "netflix", "meta", "tesla", "spacex", "uber", "airbnb">>

\* 4. Company reputation, before the cap.
company_score(text_lower) == 3 * CountContained(text_lower, FaangCompanies)

\* 5. Certifications.
certification_score(text_lower) ==
    IF Contains(text_lower, Chars("certification")) \/ Contains(text_lower, Chars("certified"))
    THEN 3 ELSE 0

AchievementKeywords == <<"achievement", "award", "published", "patent",
                         "improved", "increased", "reduced", "optimized">>

\* 6. Projects/achievements.
achievement_count(text_lower) == CountContained(text_lower, AchievementKeywords)

\* len([s for s in skills_found if s in S]).
CountIn(skills_found, S) == Cardinality({i \in DOMAIN skills_found : skills_found[i] \in S})

\* An adjustment granted for exactly 2 (exactly 3) of the listed skills
\* instead of at least as many.
position_adjustment_exact(target_position, skills_found) ==
    IF target_position = "data_scientist"
    THEN (IF CountIn(skills_found, {"machine learning", "ai", "tensorflow", "pytorch"}) = 2
          THEN 5 ELSE 0)
    ELSE IF target_position = "devops"
    THEN (IF CountIn(skills_found, {"aws", "docker", "kubernetes", "cloud"}) = 3
          THEN 5 ELSE 0)
    ELSE 0

\* The position-specific adjustment.
position_adjustment(target_position, skills_found) ==
    IF target_position = "data_scientist"
    THEN (IF CountIn(skills_found, {"machine learning", "ai", "tensorflow", "pytorch"}) >= 2
          THEN 5 ELSE 0)
    ELSE IF target_position = "devops"
    THEN (IF CountIn(skills_found, {"aws", "docker", "kubernetes", "cloud"}) >= 3
          THEN 5 ELSE 0)
    ELSE 0

\* round(num / den), Python's round: to the nearest integer, a tie to the
\* even one. num >= 0, den > 0.
Round(num, den) ==
    LET q == num \div den
        r == num % den
    IN  IF 2 * r < den THEN q
        ELSE IF 2 * r > den THEN q + 1
        ELSE IF q % 2 = 0 THEN q ELSE q + 1

\* The scoring run on the text as given, without lowercasing it.
text_as_given(text) == text

\* text_lower = text.lower()
text_lower_of(text) == Lower(text)

\* A clamp whose upper bound is 100 instead of 95.
final_score_cap100(score_num, den) == Min(100 * den, Max(30 * den, score_num))

\* final_score = min(95, max(30, score)), on the numerators over den.
final_score(score_num, den) == Min(95 * den, Max(30 * den, score_num))

\* grade_resume(text, target_position) from `text_lower = text.lower()` on,
\* on a screener with the tables sw, pr. The score is the rational
\* score_num / den: its only non-integer term is
\* (skills_score / max_possible_skills) * 30. The float the code computes
\* differs from it by less than 1e-12 and no score is within 1/94 of a
\* rounding tie (15 * skills_score / 47 is never a half), so round() of the
\* float is Round of the rational.
grade_text(sw, pr, text, target_position) ==
    LET text_lower == text_lower_of(text)
        experience == Min(experience_score(text, text_lower), 25)
        education == Min(education_score(text_lower), 15)
        required_skills == RequiredSkills(pr, target_position)
        loop == SkillsLoop(sw, required_skills, text_lower, 1)
        mps == max_possible_skills(sw)
        den == IF mps > 0 THEN mps ELSE 1
        skills_num == IF mps > 0 THEN loop.skills_score * 30 ELSE 0
        company == Min(company_score(text_lower), 10)
        certification == certification_score(text_lower)
        achievement == Min(achievement_count(text_lower) * 2, 10)
        adjustment == position_adjustment(target_position, loop.skills_found)
        score_num == (BaseScore + experience + education + company + certification
                      + achievement + adjustment) * den + skills_num
    IN  [grade |-> Round(final_score(score_num, den), den),
         skills_found |-> loop.skills_found,
         experience |-> experience,
         education |-> education,
         education_degree |-> education_degree(text_lower),
         skills_score |-> loop.skills_score,
         den |-> den,
         company |-> company,
         certification |-> certification,
         achievement |-> achievement,
         adjustment |-> adjustment,
         score_num |-> score_num]

\* The record of a call that returned at `if not text: return 0, []`.
EmptyResult ==
    [grade |-> 0, skills_found |-> <<>>, experience |-> 0, education |-> 0,
     education_degree |-> 0,
     skills_score |-> 0, den |-> 1, company |-> 0, certification |-> 0,
     achievement |-> 0, adjustment |-> 0, score_num |-> 0]

\* grade_resume without its `if not text: return 0, []`.
grade_resume_unguarded(sw, pr, text, target_position) ==
    grade_text(sw, pr, text, target_position)

\* RealisticResumeScreener.grade_resume(text, target_position): the returned
\* grade and skills_found, with the components the score was built from.
grade_resume(sw, pr, text, target_position) ==
    IF Len(text) = 0 THEN EmptyResult
    ELSE grade_text(sw, pr, text, target_position)

\* A grade_resume that writes the +2 of a required skill into the weight
\* table instead of adding it to skills_score.
tables_after_grade_writing(sw, pr, text, target_position) ==
    LET found == Range(grade_resume(sw, pr, text, target_position).skills_found)
        required == Range(RequiredSkills(pr, target_position))
    IN  [skill_weights |->
            [i \in DOMAIN sw |->
                IF sw[i].skill \in found \cap required
                THEN SW(sw[i].skill, sw[i].weight + 2) ELSE sw[i]],
         position_requirements |-> pr]

\* The screener's tables after grade_resume(text, target_position): the
\* method assigns to no attribute of self and changes neither dict.
tables_after_grade(sw, pr, text, target_position) ==
    [skill_weights |-> sw, position_requirements |-> pr]

\* calculate_position_match with int() in place of round().
calculate_position_match_int(pr, skills, target_position) ==
    LET required_skills == RequiredSkills(pr, target_position)
        matched == CountIn(skills, Range(required_skills))
    IN  IF required_skills = <<>> THEN 0
        ELSE Min(100, (matched * 100) \div Len(required_skills))

\* RealisticResumeScreener.calculate_position_match(skills, target_position).
calculate_position_match(pr, skills, target_position) ==
    LET required_skills == RequiredSkills(pr, target_position)
        matched == CountIn(skills, Range(required_skills))
    IN  IF required_skills = <<>> THEN 0
        ELSE Min(100, Round(matched * 100, Len(required_skills)))

-----------------------------------------------------------------------------
(* LLMScreener: the rule-based helpers                                      *)

CommonSkills == <<
    "python", "java", "javascript", "aws", "docker", "kubernetes", "sql",
    "react", "node.js", "tensorflow", "pytorch", "machine learning", "ai",
    "cloud", "devops", "azure", "gcp", "linux", "git", "c++", "c#", "go", "rust" >>

\* The loop of _extract_skills_rule_based over common_skills from entry i on.
RECURSIVE ExtractLoop(_, _)
ExtractLoop(text_lower, i) ==
    IF i > Len(CommonSkills) THEN <<>>
    ELSE (IF SearchWord(text_lower, Chars(CommonSkills[i]))
          THEN <<CommonSkills[i]>> ELSE <<>>)
         \o ExtractLoop(text_lower, i + 1)

\* LLMScreener._extract_skills_rule_based(text).
extract_skills_rule_based(text) == ExtractLoop(Lower(text), 1)

LLMRequirements ==
    [p \in {"software_engineer", "data_scientist", "devops", "full_stack"} |->
        CASE p = "software_engineer" -> <<"python", "java", "javascript", "sql">>
          [] p = "data_scientist" -> <<"python", "machine learning", "sql", "tensorflow">>
          [] p = "devops" -> <<"aws", "docker", "linux", "kubernetes">>
          [] p = "full_stack" -> <<"javascript", "react", "node.js", "html">>]

\* LLMScreener._calculate_match(skills, position); calculate_position_match
\* is a wrapper that passes its arguments on. int() of a non-negative float
\* truncates; len(matches) / 4 * 100 is exact in floating point.
calculate_match(skills, target_position) ==
    LET reqs == RequiredSkills(LLMRequirements, StrLower(target_position))
        nmatches == CountIn(skills, Range(reqs))
    IN  IF reqs = <<>> THEN 0
        ELSE (nmatches * 100) \div Len(reqs)

-----------------------------------------------------------------------------
(* RealisticResumeScreener.process_folder                                   *)

\* text.strip(): t without its leading and trailing whitespace.
Strip(t) ==
    LET inked == {i \in DOMAIN t : ~IsSpace(t[i])}
    IN  IF inked = {} THEN <<>>
        ELSE SubSeq(t, CHOOSE i \in inked : \A j \in inked : i <= j,
                       CHOOSE i \in inked : \A j \in inked : i >= j)

\* r'(\d+)\s+years?\s+experience' matched at position i of t. The digits are
\* followed by whitespace, "year" by "s" or whitespace, so the greedy choice
\* of every quantifier is the only one that can match.
ExplicitYearsAt(t, i) ==
    LET d == SkipDigits(t, i)
        a == SkipSpace(t, d)
        b == a + 4
        c == IF MatchAt(t, b, Chars("s")) THEN b + 1 ELSE b
        e == SkipSpace(t, c)
    IN  /\ d > i
        /\ a > d
        /\ MatchAt(t, a, Chars("year"))
        /\ e > c
        /\ MatchAt(t, e, Chars("experience"))

\* The starts of the matches of that pattern that begin a run of digits: a
\* match from a later digit of a run is a match from its first digit too.
ExplicitYearsStarts(t) ==
    {i \in 1..Len(t) :
        /\ IsDigit(t[i])
        /\ ~(i > 1 /\ IsDigit(t[i - 1]))
        /\ ExplicitYearsAt(t, i)}

\* The number process_folder would read from the last match of the pattern.
last_year_match(t) ==
    LET starts == ExplicitYearsStarts(t)
        i == CHOOSE x \in starts : \A y \in starts : y <= x
    IN  IntOf(t, i, SkipDigits(t, i))

\* int(year_match.group(1)) of re.search(pattern, t): the leftmost match.
first_year_match(t) ==
    LET starts == ExplicitYearsStarts(t)
        i == CHOOSE x \in starts : \A y \in starts : x <= y
    IN  IntOf(t, i, SkipDigits(t, i))

\* re.findall(r'(?:19|20)\d{2}', t) from the candidate starts cs on: the
\* scan goes left to right and resumes after each match, so a candidate
\* inside the previous match is passed over.
RECURSIVE YearsFrom(_, _, _)
YearsFrom(t, cs, from) ==
    IF cs = <<>> THEN <<>>
    ELSE IF Head(cs) < from THEN YearsFrom(t, Tail(cs), from)
    ELSE <<IntOf(t, Head(cs), Head(cs) + 4)>> \o YearsFrom(t, Tail(cs), Head(cs) + 4)

find_year_pattern(t) == YearsFrom(t, Ascending({i \in 1..Len(t) : YearAt(t, i)}), 1)

SeqMax(q) == CHOOSE x \in Range(q) : \A y \in Range(q) : y <= x
SeqMin(q) == CHOOSE x \in Range(q) : \A y \in Range(q) : x <= y

\* "years_experience" of a result of process_folder, in tenths of a year:
\* round(years_exp, 1), where years_exp is the int of the explicit mention or
\* the float (max - min) / 10 of two whole numbers.
years_experience(text) ==
    LET text_lower == Lower(text)
    IN  IF ExplicitYearsStarts(text_lower) # {}
        THEN 10 * first_year_match(text_lower)
        ELSE LET years == find_year_pattern(text)
                 years_numeric == SelectSeq(years, LAMBDA y : 1900 <= y /\ y <= 2024)
             IN  IF Len(years) >= 2 /\ years_numeric # <<>>
                 THEN Min(200, SeqMax(years_numeric) - SeqMin(years_numeric))
                 ELSE 0

\* A file of the folder: kind "resume" (a .pdf, .docx or .txt file
\* parse_resume reads, content its text), "unreadable" (such a file, but
\* parse_resume returns None) or "other" (any other file name).
FolderFile(name, kind, content) == [name |-> name, kind |-> kind, content |-> content]

\* self.parse_resume(file_path): <<text>>, or <<>> for None.
parse_resume(f) == IF f.kind = "resume" THEN <<Strip(f.content)>> ELSE <<>>

\* The dict appended to `results` for the text of a file, g being what
\* grade_resume returned for it.
folder_result(pr, filename, text, target_position, g) ==
    [filename |-> filename,
     text |-> text,
     target_position |-> target_position,
     grade |-> g.grade,
     skills |-> g.skills_found,
     years_experience |-> years_experience(text),
     position_match |-> calculate_position_match(pr, g.skills_found, target_position)]

\* The body of the loop from `if text:` on, text being what parse_resume
\* returned.
process_parsed_file(sw, pr, res, filename, text, target_position) ==
    IF text = <<>> \/ text[1] = <<>> THEN res
    ELSE Append(res, folder_result(pr, filename, text[1], target_position,
                                   grade_resume(sw, pr, text[1], target_position)))

\* The body of `for filename in os.listdir(folder_path)` for the file f with
\* the tables sw, pr: the list `results` after it.
process_folder_file(sw, pr, res, f, target_position) ==
    IF f.kind = "other" THEN res
    ELSE process_parsed_file(sw, pr, res, f.name, parse_resume(f), target_position)

-----------------------------------------------------------------------------
(* ResumeScreenerWebWrapper.analyze_resume                                  *)

\* A chain that tests the lowest degree first.
education_level_lowest_first(text) ==
    LET text_lower == Lower(text)
    IN  IF Contains(text_lower, Chars("bachelor")) \/ Contains(text_lower, Chars("bs"))
        THEN "Bachelor's"
        ELSE IF Contains(text_lower, Chars("master")) \/ Contains(text_lower, Chars("ms"))
        THEN "Master's"
        ELSE IF Contains(text_lower, Chars("phd")) \/ Contains(text_lower, Chars("doctorate"))
        THEN "PhD"
        ELSE "Not specified"

\* "education_level": the if/elif chain over text.lower().
education_level(text) ==
    LET text_lower == Lower(text)
    IN  IF Contains(text_lower, Chars("phd")) \/ Contains(text_lower, Chars("doctorate"))
        THEN "PhD"
        ELSE IF Contains(text_lower, Chars("master")) \/ Contains(text_lower, Chars("ms"))
        THEN "Master's"
        ELSE IF Contains(text_lower, Chars("bachelor")) \/ Contains(text_lower, Chars("bs"))
        THEN "Bachelor's"
        ELSE "Not specified"

\* The dict analyze_resume returns, with the record g of the grade_resume
\* call behind "score" and "skills". "experience_years" comes from the
\* screener's extract_experience, which is defined in core/screener.py and is
\* taken to return; "summary" and "word_count" are left out.
analysis_of(pr, text, target_position, g) ==
    [error |-> FALSE,
     graded |-> g,
     education_level |-> education_level(text),
     skills_match |-> calculate_position_match(pr, g.skills_found, target_position)]

\* analyze_resume(text, target_position) with the rule-based screener.
analyze_resume(sw, pr, text, target_position) ==
    IF Len(text) = 0
    THEN [error |-> TRUE, graded |-> EmptyResult, education_level |-> "", skills_match |-> 0]
    ELSE analysis_of(pr, text, target_position, grade_resume(sw, pr, text, target_position))

-----------------------------------------------------------------------------
(* DecisionMakerAgent.select_top_candidates                                 *)

\* A candidate record r is [id, result, grade]: id is its place in the
\* caller's list; result is the shape of the dict under "grading_result":
\*   "absent"  the record has no "grading_result" key (an error record),
\*   "empty"   the dict has no "grade" key,
\*   "none"    the dict holds "grade": None,
\*   "graded"  the dict holds "grade": r.grade, a number.
Candidate(i, shape, g) == [id |-> i, result |-> shape, grade |-> g]

\* r.get("grading_result", {}).get("grade") is not None
HasGrade(r) == r.result = "graded"

\* config.top_n_candidates, the default of n.
TopNCandidates == 10

\* valid_resumes: the records with a grade, in the order of the list.
valid_resumes(records) == SelectSeq(records, HasGrade)

\* sorted(..., reverse=True) that a reversal of the ascending sort would
\* give: records of equal grade come out in reverse encounter order.
RECURSIVE SortedAscendingReversed(_)
SortedAscendingReversed(records) ==
    IF records = <<>> THEN <<>>
    ELSE LET head == SortedAscendingReversed(SubSeq(records, 1, Len(records) - 1))
             x == records[Len(records)]
             before == {k \in DOMAIN head : head[k].grade > x.grade}
         IN  SubSeq(head, 1, Cardinality(before)) \o <<x>>
             \o SubSeq(head, Cardinality(before) + 1, Len(head))

\* sorted(records, key=lambda x: x["grading_result"]["grade"], reverse=True):
\* a stable sort; records of equal grade keep their order.
RECURSIVE SortedByGradeDescending(_)
SortedByGradeDescending(records) ==
    IF records = <<>> THEN <<>>
    ELSE LET head == SortedByGradeDescending(SubSeq(records, 1, Len(records) - 1))
             x == records[Len(records)]
             before == {k \in DOMAIN head : head[k].grade >= x.grade}
         IN  SubSeq(head, 1, Cardinality(before)) \o <<x>>
             \o SubSeq(head, Cardinality(before) + 1, Len(head))

\* The slice q[:n] of Python, n of either sign.
SliceTo(q, n) ==
    IF n >= 0 THEN SubSeq(q, 1, Min(n, Len(q)))
    ELSE SubSeq(q, 1, Max(Len(q) + n, 0))

\* The n select_top_candidates works with: self.top_n when n is None.
EffectiveN(given, n) == IF given THEN n ELSE TopNCandidates

\* DecisionMakerAgent.select_top_candidates(graded_resumes, n): the list
\* returned.
select_top_candidates(records, given, n) ==
    SliceTo(SortedByGradeDescending(valid_resumes(records)), EffectiveN(given, n))

\* A select_top_candidates that sorts the caller's list in place
\* (graded_resumes.sort(...)) before filtering it.
records_sorted_in_place(records, given, n) ==
    SortedByGradeDescending(records)

\* The caller's list after select_top_candidates(graded_resumes, n): the
\* comprehension and sorted() build new lists, the slice another; no record
\* and no list of the caller is assigned to.
records_after_select(records, given, n) == records

-----------------------------------------------------------------------------
(* LLMScreener.batch_process and EmailAgent.process_resumes                 *)

\* A resume file f is [file, read, grade]: file is its number in encounter
\* order; read is what reading and parsing it does ("ok", "fails": the
\* parser raises or the reader cannot read it, "empty": it holds no text);
\* grade is what the stages after parsing do ("ok", "raises").
ResumeFile(i, r, g) == [file |-> i, read |-> r, grade |-> g]

\* A process_resume whose stages are not inside a try: what they raise
\* leaves the method.
process_resume_uncaught(f) ==
    [raised |-> f.read = "fails" \/ f.grade = "raises", error |-> FALSE, file |-> f.file]

\* LLMScreener.process_resume(file_path, target_position): every stage
\* runs inside one try, and the handler returns a dict with the key
\* "error"; the ResumeParserAgent raises on a file it cannot parse.
process_resume(f) ==
    [raised |-> FALSE, error |-> f.read = "fails" \/ f.grade = "raises", file |-> f.file]

\* One pass of the loop of batch_process over file f: the lists `results`
\* after it, or raised when an exception left process_resume.
batch_process_file(res, f) ==
    LET result == process_resume(f)
    IN  IF result.raised THEN [raised |-> TRUE, results |-> res]
        ELSE [raised |-> FALSE,
              results |-> IF ~result.error THEN Append(res, result.file) ELSE res]

\* EmailAgent.read_resume_file(filepath) returned a non-empty text: the
\* method catches what reading raises and returns "".
read_resume_file(f) == f.read = "ok"

\* One pass of the inner loop of process_resumes over attachment f: the
\* body is inside a try whose handler logs; `if not text: continue` skips
\* the attachment that gave no text.
screen_attachment(res, f) ==
    IF ~read_resume_file(f) THEN [raised |-> FALSE, results |-> res]
    ELSE IF f.grade = "raises" THEN [raised |-> FALSE, results |-> res]
    ELSE [raised |-> FALSE, results |-> Append(res, f.file)]

-----------------------------------------------------------------------------
(* EmailAgent.check_for_new_resumes                                         *)

\* An email m is [id, fetch, decode, attachment, mentions_resume]:
\*   fetch       what mail.fetch does: "ok", "not_ok" (a status other than
\*               'OK') or "raises";
\*   decode      what parsing the message and decoding its headers and
\*               body does: "ok" or "raises" (decode_email_header on a
\*               header of an unknown charset, get_payload giving None);
\*   attachment  "none", "saved" (save_attachment returned a path) or
\*               "save_fails" (save_attachment caught an error and
\*               returned None);
\*   mentions_resume  the body contains "resume" or "cv".
Email(i, k) ==
    [id |-> i, fetch |-> k.fetch, decode |-> k.decode,
     attachment |-> k.attachment, mentions_resume |-> k.mentions_resume]

\* The loop runs over email_ids[-50:].
IntakeWindow == 50
LastEmails(ids) ==
    IF Len(ids) <= IntakeWindow THEN ids
    ELSE SubSeq(ids, Len(ids) - IntakeWindow + 1, Len(ids))

\* `if attachments or "resume" in body.lower() or "cv" in body.lower()`
IsResumeEmail(m) == m.attachment = "saved" \/ m.mentions_resume

\* One pass of the loop of check_for_new_resumes over email m, inside the
\* try of the method: the state after it, raised when fetching or decoding
\* raised (the handler of the method then runs).
intake_email(m, ignore, processed, found) ==
    IF ~ignore /\ \E k \in DOMAIN processed : processed[k] = m.id
    THEN [raised |-> FALSE, processed_emails |-> processed, new_resumes |-> found]
    ELSE IF m.fetch = "raises"
    THEN [raised |-> TRUE, processed_emails |-> processed, new_resumes |-> found]
    ELSE IF m.fetch = "not_ok"
    THEN [raised |-> FALSE, processed_emails |-> processed, new_resumes |-> found]
    ELSE IF m.decode = "raises"
    THEN [raised |-> TRUE, processed_emails |-> processed, new_resumes |-> found]
    ELSE IF IsResumeEmail(m)
    THEN [raised |-> FALSE, processed_emails |-> Append(processed, m.id),
          new_resumes |-> Append(found, m.id)]
    ELSE [raised |-> FALSE, processed_emails |-> processed, new_resumes |-> found]

\* `except Exception as e: ... return []`: what the method returns when a
\* pass of the loop raised.
intake_handler(found) == <<>>

\* save_processed_email keeps the last 1000 ids in the file.
KeepLast == 1000
LastRecorded(ids) ==
    IF Len(ids) <= KeepLast THEN ids
    ELSE SubSeq(ids, Len(ids) - KeepLast + 1, Len(ids))

\* An email of the folder with its age in days.
Stored(m, days_old) == [email |-> m, days_old |-> days_old]

\* mail.search(None, '(SINCE "<date>")'): the emails of the last days_back
\* days, in the order of the folder.
search(box, days_back) ==
    LET hits == SelectSeq(box, LAMBDA e : e.days_old <= days_back)
    IN  [k \in DOMAIN hits |-> hits[k].email]

\* The loop of check_for_new_resumes over the emails from index i on; it
\* ends at the pass that raises.
RECURSIVE check_window(_, _, _, _, _), check_pass(_, _, _, _)
check_window(window, i, ignore, processed, found) ==
    IF i > Len(window)
    THEN [raised |-> FALSE, processed_emails |-> processed, new_resumes |-> found]
    ELSE check_pass(window, i, ignore, intake_email(window[i], ignore, processed, found))

\* The rest of the loop after the pass over email i left the state `after`.
check_pass(window, i, ignore, after) ==
    IF after.raised THEN after
    ELSE check_window(window, i + 1, ignore, after.processed_emails, after.new_resumes)

\* What a call leaves behind, out being the state at the end of its loop:
\* the list it returns, self.processed_emails, and the ids in the file, which
\* every save_processed_email of the call has rewritten.
cycle_outcome(out, processed, file) ==
    [returned |-> IF out.raised THEN intake_handler(out.new_resumes) ELSE out.new_resumes,
     processed_emails |-> out.processed_emails,
     file |-> IF out.processed_emails # processed
              THEN LastRecorded(out.processed_emails) ELSE file]

\* check_for_new_resumes(days_back, ignore_processed) of an agent that holds
\* `processed`, on a folder `box`, the file holding `file`.
check_for_new_resumes(box, days_back, ignore, processed, file) ==
    cycle_outcome(check_window(LastEmails(search(box, days_back)), 1, ignore,
                               processed, <<>>),
                  processed, file)

\* config.sensitive_categories
sensitive_categories == {"personal_information"}

\* classify_sentence without a model: the first rule that finds one of its
\* words in the lowered sentence gives the category.
classify_by_rule(lower_sentence) ==
    IF Contains(lower_sentence, Chars("skill")) \/ Contains(lower_sentence, Chars("expert"))
       \/ Contains(lower_sentence, Chars("proficient"))
    THEN "skill"
    ELSE IF Contains(lower_sentence, Chars("experience"))
            \/ Contains(lower_sentence, Chars("year"))
            \/ Contains(lower_sentence, Chars("worked"))
    THEN "experience"
    ELSE IF Contains(lower_sentence, Chars("university"))
            \/ Contains(lower_sentence, Chars("degree"))
            \/ Contains(lower_sentence, Chars("bachelor"))
    THEN "education"
    ELSE IF Contains(lower_sentence, Chars("email")) \/ Contains(lower_sentence, Chars("phone"))
            \/ Contains(lower_sentence, Chars("@"))
    THEN "personal_information"
    ELSE "summary"

\* classify_sentence: by rule, or the category read from the model's answer
\* (s.answer: a category, "unknown" when the answer names none, "error" when
\* the pipeline raised).
classify_sentence(s, mock) ==
    IF mock THEN classify_by_rule(Lower(s.text)) ELSE s.answer

\* The filter of process_resume that drops every sentence of a sensitive
\* category, whatever config.remove_personal_info says.
keep_sentence_always_filtering(category, remove) ==
    category \notin sensitive_categories

\* `if self.config.remove_personal_info: if category not in
\* self.sensitive_categories: ... else: ...`: whether the sentence goes to
\* filtered_sentences.
keep_sentence(category, remove) ==
    IF remove THEN category \notin sensitive_categories ELSE TRUE

\* " ".join(parts)
RECURSIVE JoinSpaces(_)
JoinSpaces(parts) ==
    IF parts = <<>> THEN <<>>
    ELSE IF Len(parts) = 1 THEN parts[1]
    ELSE parts[1] \o Chars(" ") \o JoinSpaces(Tail(parts))

\* category_counts: the number of the classified sentences per category.
category_counts(classified) ==
    [c \in {classified[k].category : k \in DOMAIN classified} |->
        Cardinality({k \in DOMAIN classified : classified[k].category = c})]

\* The loop of the classifier's process_resume from sentence k on.
RECURSIVE classify_from(_, _, _, _, _, _), classify_step(_, _, _, _, _, _, _)
classify_from(list, k, mock, remove, classified, filtered) ==
    IF k > Len(list)
    THEN [classified_sentences |-> classified,
          filtered_text |-> JoinSpaces(filtered),
          category_statistics |-> category_counts(classified),
          total_sentences |-> Len(list),
          filtered_sentences |-> Len(filtered)]
    ELSE classify_step(list, k, mock, remove, classified, filtered,
                       classify_sentence(list[k], mock))

\* One pass of the loop, category being what classify_sentence returned.
classify_step(list, k, mock, remove, classified, filtered, category) ==
    classify_from(list, k + 1, mock, remove,
                  Append(classified, [sentence |-> list[k].text, category |-> category]),
                  IF keep_sentence(category, remove)
                  THEN Append(filtered, list[k].text) ELSE filtered)

\* SentenceClassifierAgent.process_resume
classifier_process_resume(list, mock, remove) ==
    classify_from(list, 1, mock, remove, <<>>, <<>>)

\* What the parser's cleaned text of these sentences is, and what an
\* attachment with these sentences reads as.
raw_text(list) == JoinSpaces([k \in DOMAIN list |-> list[k].text])

\* The text that LLMScreener.process_resume hands to grade_and_summarize.
process_resume_grader_input(classification_result) == classification_result.filtered_text

\* The text that the wrapper LLMScreener.grade_resume hands to
\* grade_and_summarize: the text it was called with.
grade_resume_grader_input(text) == text

\* What a decision says of the candidate at index i (from 0) of the list,
\* under the id it is given.
Selected(list, i, id) == [id |-> id, grade |-> list[i + 1].grade]

\* The records that make_decision returns: the method, the selected
\* candidates and the error entry ("" when the record has none).
Decision(method, selected, error) ==
    [method |-> method, selected |-> selected, error |-> error]
NoDecision == Decision("", <<>>, "")

\* A call that ends in an exception.
Raises(exception) == [raised |-> exception, value |-> NoDecision]
Returns(value) == [raised |-> "", value |-> value]

\* _make_local_decision: `selected = candidates[0]`.
make_local_decision(list) ==
    IF Len(list) = 0 THEN Returns(Decision("", <<>>, "No candidates to evaluate"))
    ELSE Returns(Decision("local_heuristic", <<Selected(list, 0, 0)>>, ""))

\* _parse_decision_response for a response whose "Selection:" is followed
\* by the character answer.selection: the group (.+?) of the pattern holds
\* this one character, so selected_ids is [d] when it is the digit d and []
\* otherwise (answer.selection = -1: no digit, or no "Selection:").
parse_decision_response(answer, list) ==
    Returns(Decision("llm_decision",
                     IF 0 <= answer.selection - 1 /\ answer.selection - 1 < Len(list)
                     THEN <<Selected(list, answer.selection - 1, answer.selection)>>
                     ELSE <<>>,
                     ""))

\* _make_gpt_decision: any exception of the call falls back to
\* _make_local_decision.
make_gpt_decision(gpt, list) ==
    IF gpt.raised THEN make_local_decision(list)
    ELSE parse_decision_response(gpt, list)

\* The simple ranking of make_decision: the reasoning is formatted from
\* selected[0] also when selected is empty.
simple_ranking(list) ==
    IF Len(list) = 0 THEN Raises("IndexError")
    ELSE Returns(Decision("simple_ranking", <<Selected(list, 0, 0)>>, ""))

\* make_decision. config.has_get tells whether the config object has a
\* method get; the UnifiedConfig that LLMScreener hands to the agent has
\* attributes only.
make_decision(config, gpt, list) ==
    IF ~config.has_get THEN Raises("AttributeError")
    ELSE IF ~config.use_llm_for_decision THEN simple_ranking(list)
    ELSE IF config.use_gpt THEN make_gpt_decision(gpt, list)
    ELSE make_local_decision(list)

\* LLMScreener.make_hiring_decision hands results to make_decision as it is.
make_hiring_decision(config, gpt, results_list) == make_decision(config, gpt, results_list)

\* The status and the response template that process_resumes gives a grade.
status_step_past(grade, min_score) ==
    IF grade > min_score + 10 THEN [status |-> "Accepted", template |-> "accepted"]
    ELSE IF grade >= min_score THEN [status |-> "Needs Review", template |-> "needs_review"]
    ELSE [status |-> "Rejected", template |-> "rejected"]

status_of(grade, min_score) ==
    IF grade >= min_score + 10 THEN [status |-> "Accepted", template |-> "accepted"]
    ELSE IF grade >= min_score THEN [status |-> "Needs Review", template |-> "needs_review"]
    ELSE [status |-> "Rejected", template |-> "rejected"]

\* The result that process_resumes builds for a grade.
screening_result(grade, min_score) ==
    [score |-> grade,
     status |-> status_of(grade, min_score).status,
     template |-> status_of(grade, min_score).template,
     sent |-> FALSE,
     scheduled |-> FALSE]

\* One pass of the inner loop of process_resumes over an attachment a:
\* a.read is "empty" when read_resume_file returns no text; a.grade is what
\* screener.grade_resume returns as the grade. A grade that is a string makes
\* the comparison with min_score raise, which the except of the pass logs.
process_attachment(res, a, min_score) ==
    IF a.read = "empty" THEN res
    ELSE IF a.grade.type # "int" THEN res
    ELSE Append(res, screening_result(a.grade.val, min_score))

\* The inner loop of process_resumes over the attachments of one email; an
\* email without attachments is skipped.
RECURSIVE process_attachments(_, _, _, _)
process_attachments(res, attachments, k, min_score) ==
    IF k > Len(attachments) THEN res
    ELSE process_attachments(process_attachment(res, attachments[k], min_score),
                             attachments, k + 1, min_score)

\* len([r for r in results if r["screening_results"]["status"] == status])
RECURSIVE count_status(_, _)
count_status(res, status) ==
    IF res = <<>> THEN 0
    ELSE (IF Head(res).status = status THEN 1 ELSE 0) + count_status(Tail(res), status)

\* The summary of a completed run.
run_summary_one_per_result(emails, res, sent) ==
    [status |-> "completed",
     total_emails |-> emails,
     total_resumes |-> Len(res),
     responses_sent |-> Len(res),
     accepted |-> count_status(res, "Accepted"),
     needs_review |-> count_status(res, "Needs Review"),
     rejected |-> count_status(res, "Rejected")]

run_summary(emails, res, sent) ==
    [status |-> "completed",
     total_emails |-> emails,
     total_resumes |-> Len(res),
     responses_sent |-> sent,
     accepted |-> count_status(res, "Accepted"),
     needs_review |-> count_status(res, "Needs Review"),
     rejected |-> count_status(res, "Rejected")]

\* What run_once returns when it returns early.
early_return(status) ==
    [status |-> status, total_emails |-> 0, total_resumes |-> 0, responses_sent |-> 0,
     accepted |-> 0, needs_review |-> 0, rejected |-> 0]


-----------------------------------------------------------------------------
(* HRGraderAgent.grade_and_summarize                                        *)

\* A JSON value under the key "grade", or the lack of the key: [type, val]
\* with type "int" (val the number), "str", "null", or "missing".
IntGrade(v) == [type |-> "int", val |-> v]
StrGrade == [type |-> "str", val |-> 0]
NullGrade == [type |-> "null", val |-> 0]
NoGradeKey == [type |-> "missing", val |-> 0]

\* A model response is [fence, body]: fence says whether the text wraps its
\* content in a ```json block ("json"), in a ``` block ("plain") or in
\* none ("none"); body is the content: [kind |-> "invalid"] (no JSON),
\* [kind |-> "array"] (JSON, but no object) or [kind |-> "object", grade]
\* (a JSON object, grade the value under its key "grade").
Response(fence, body) == [fence |-> fence, body |-> body]

\* config.max_grade
MaxGrade == 100

\* clean_response: the content between the fences, or the whole text.
clean_response(resp) == resp.body

\* HRGraderAgent._parse_response(response): json.loads of the cleaned text,
\* or the fallback dict with "grade": 0 when that raises.
parse_response(resp) ==
    LET data == clean_response(resp)
    IN  IF data.kind = "invalid" THEN [kind |-> "object", grade |-> IntGrade(0)]
        ELSE data

\* HRGraderAgent.grade_and_summarize(resume_text, target_position): the
\* "grade" of the dict it returns, parsed_data.get("grade", 0); raised when
\* parsed_data is no dict and has no get.
grade_and_summarize(resp) ==
    LET parsed_data == parse_response(resp)
    IN  IF parsed_data.kind # "object" THEN [raised |-> TRUE, grade |-> NullGrade]
        ELSE IF parsed_data.grade.type = "missing" THEN [raised |-> FALSE, grade |-> IntGrade(0)]
        ELSE [raised |-> FALSE, grade |-> parsed_data.grade]

\* `grading_result["grade"] or 0` of process_resume and
\* `grading_result.get("grade", 0) or 0` of LLMScreener.grade_resume.
grade_or_zero(grade) ==
    IF grade.type = "null" \/ (grade.type = "int" /\ grade.val = 0) THEN IntGrade(0)
    ELSE grade

-----------------------------------------------------------------------------
(* Inputs                                                                   *)

\* Sections a resume text is made of. A text holds at most MaxFragments of
\* them, in this order, one per line.
Fragments == <<
    Chars("Senior Engineer, 10 years of experience at Google, Amazon and Meta"),
    Chars("PhD, MIT. Certified. Award, patent"),
    Chars("Python, Java, JavaScript, SQL, React, Node.js, HTML"),
    Chars("AWS, Docker, Kubernetes, Linux, Git, Cloud"),
    Chars("Machine Learning, TensorFlow"),
    Chars("PyTorch"),
    <<"g", DotlessI, "t">> >>

MaxFragments == 3

\* The sections with index in S, from index i on, joined by newlines.
RECURSIVE JoinFrom(_, _)
JoinFrom(S, i) ==
    IF i > Len(Fragments) THEN <<>>
    ELSE IF i \in S
    THEN LET rest == JoinFrom(S, i + 1)
         IN  IF rest = <<>> THEN Fragments[i] ELSE Fragments[i] \o <<"\n">> \o rest
    ELSE JoinFrom(S, i + 1)

SectionSets == {S \in SUBSET DOMAIN Fragments : Cardinality(S) <= MaxFragments}

\* The input texts; the empty text is one of them.
Texts == {JoinFrom(S, 1) : S \in SectionSets}

\* What a second text of a session can be, given the first: the same text,
\* the text with one more section, or the text with the case of its letters
\* changed.
Revisions(S) ==
    {JoinFrom(R, 1) : R \in {R \in SectionSets : S \subseteq R /\ Cardinality(R \ S) <= 1}}
    \cup {Upper(JoinFrom(S, 1)), Lower(JoinFrom(S, 1)), SwapCase(JoinFrom(S, 1))}

\* The four positions of both requirement tables, and an identifier that
\* is no key of either table (LLMScreener lowercases it to one of its keys).
PositionIds == {"software_engineer", "data_scientist", "devops", "full_stack", "DevOps"}

\* Skill lists handed directly to calculate_position_match: any list of at
\* most MaxSkillArgs tokens, repeats allowed.
SkillTokens == {"python", "docker"}
MaxSkillArgs == 7
SkillLists == UNION {[1..n -> SkillTokens] : n \in 0..MaxSkillArgs}

\* The candidate lists handed to select_top_candidates: at most MaxRecords
\* records, each an error record, a record without a grade, with the grade
\* None or with one of a few grades, 0 among them; repeats of a grade are
\* the ties.
MaxRecords == 4
GradeValues == {0, 70, 90}
CandidateShapes ==
    {[result |-> "absent", grade |-> 0], [result |-> "empty", grade |-> 0],
     [result |-> "none", grade |-> 0]}
    \cup {[result |-> "graded", grade |-> g] : g \in GradeValues}
CandidateLists ==
    UNION {{[i \in 1..len |-> Candidate(i, f[i].result, f[i].grade)] :
                f \in [1..len -> CandidateShapes]} : len \in 0..MaxRecords}

\* The n handed to select_top_candidates: none, or a number up to MaxN; a
\* negative one is a slice from the end.
MaxN == 3
NArgs == -1..MaxN

\* No call of select_top_candidates is in progress.
RankingIdle ==
    /\ graded_resumes = <<>>
    /\ caller_copy = <<>>
    /\ n_given = FALSE
    /\ n_arg = 0
    /\ top_candidates = <<>>

\* No session with a screener is in progress.
ScreenerIdle ==
    /\ skill_weights = InitSkillWeights
    /\ position_requirements = InitPositionRequirements
    /\ mode = "none"
    /\ texts = <<>>
    /\ position = ""
    /\ skills_arg = <<>>
    /\ graded = <<>>
    /\ extracted = <<>>
    /\ matches = <<>>
    /\ direct_match = <<>>

\* What a file of a batch can do.
FileOutcomes ==
    {[read |-> "ok", grade |-> "ok"], [read |-> "ok", grade |-> "raises"],
     [read |-> "fails", grade |-> "ok"], [read |-> "empty", grade |-> "ok"]}

\* The folders batch_process is run on: at most MaxFiles files.
MaxFiles == 3
Folders ==
    UNION {{[i \in 1..len |-> ResumeFile(i, f[i].read, f[i].grade)] :
                f \in [1..len -> FileOutcomes]} : len \in 0..MaxFiles}

\* The email lists process_resumes is run on: at most MaxEmails emails of
\* zero, one or two attachments; the files are numbered in encounter
\* order, two per email.
MaxEmails == 2
AttachmentCounts == 0..2
AttachmentLists(e) ==
    UNION {{[j \in 1..len |-> ResumeFile(2 * (e - 1) + j, f[j].read, f[j].grade)] :
                f \in [1..len -> FileOutcomes]} : len \in AttachmentCounts}
RECURSIVE EmailListsOf(_)
EmailListsOf(len) ==
    IF len = 0 THEN {<<>>}
    ELSE {Append(q, a) : q \in EmailListsOf(len - 1), a \in AttachmentLists(len)}
EmailLists == UNION {EmailListsOf(len) : len \in 0..MaxEmails}

\* No batch is in progress.
BatchIdle ==
    /\ batch_kind = "none"
    /\ batch_input = <<>>
    /\ cursor = <<1, 1>>
    /\ results = <<>>
    /\ batch_status = "returned"

\* The emails an inbox can hold.
EmailKinds ==
    {[fetch |-> "ok", decode |-> "ok", attachment |-> "saved", mentions_resume |-> FALSE],
     [fetch |-> "ok", decode |-> "ok", attachment |-> "none", mentions_resume |-> TRUE],
     [fetch |-> "ok", decode |-> "ok", attachment |-> "none", mentions_resume |-> FALSE],
     [fetch |-> "ok", decode |-> "ok", attachment |-> "save_fails", mentions_resume |-> FALSE],
     [fetch |-> "not_ok", decode |-> "ok", attachment |-> "saved", mentions_resume |-> FALSE],
     [fetch |-> "raises", decode |-> "ok", attachment |-> "saved", mentions_resume |-> FALSE],
     [fetch |-> "ok", decode |-> "raises", attachment |-> "saved", mentions_resume |-> FALSE]}

\* The inboxes of an intake cycle: at most MaxInbox emails, numbered in the
\* order of the search result.
MaxInbox == 3
Inboxes ==
    UNION {{[i \in 1..len |-> Email(i, f[i])] : f \in [1..len -> EmailKinds]} :
              len \in 0..MaxInbox}

\* No intake cycle is in progress.
IntakeIdle ==
    /\ inbox = <<>>
    /\ ignore_processed = FALSE
    /\ processed_emails = <<>>
    /\ intake_pos = 1
    /\ new_resumes = <<>>
    /\ intake_status = "idle"
    /\ returned_resumes = <<>>

\* The grades a model response can name: every integer from one under 0
\* to GradeMargin above max_grade.
GradeMargin == 2
ResponseGrades == -1..(MaxGrade + GradeMargin)

\* _generate_mock: random.randint(60, 95).
MockGrades == 60..95

\* The responses of a generator.
Responses(gen) ==
    IF gen = "mock"
    THEN {Response("none", [kind |-> "object", grade |-> IntGrade(g)]) : g \in MockGrades}
    ELSE {Response(fence, body) :
            fence \in {"none", "json", "plain"},
            body \in {[kind |-> "invalid", grade |-> NoGradeKey],
                      [kind |-> "array", grade |-> NoGradeKey]}
                     \cup {[kind |-> "object", grade |-> g] :
                             g \in {StrGrade, NullGrade, NoGradeKey}
                                   \cup {IntGrade(v) : v \in ResponseGrades}}}

\* No grading call is in progress.
GraderIdle ==
    /\ generator = "none"
    /\ response = Response("none", [kind |-> "invalid", grade |-> NoGradeKey])
    /\ grading_result = <<>>
    /\ grader_status = "idle"
    /\ scores = <<>>

\* The resume of the senior software engineer scenario.
SeniorEngineerResume ==
    Chars("Senior Software Engineer with 10 years experience at Google. Skills: Python, AWS, Docker, Kubernetes, SQL. Master's degree.")

\* Pieces of the resumes of a folder: mentions of years of experience, dates
\* inside and outside [1900, 2024], skills, and two digits that run into the
\* number of the next piece.
FolderFragments == <<
    Chars("5 years experience "),
    Chars("12 Year  Experience\n"),
    Chars("3 years of experience "),
    Chars("2015-2020 "),
    Chars("1999 "),
    Chars("2030 "),
    Chars("Python, AWS "),
    Chars("20") >>

MaxFolderFragments == 2

RECURSIVE Concat(_)
Concat(q) == IF q = <<>> THEN <<>> ELSE Head(q) \o Concat(Tail(q))

\* The texts of the folder's resume: up to MaxFolderFragments pieces in any
\* order, the blank text and the scenario resume.
FolderTexts ==
    {Concat([k \in DOMAIN ix |-> FolderFragments[ix[k]]]) :
        ix \in UNION {[1..n -> DOMAIN FolderFragments] : n \in 0..MaxFolderFragments}}
    \cup {Chars(" \n"), SeniorEngineerResume}

\* The target positions of process_folder: its default, and no key of the
\* table.
FolderPositions == {"software_engineer", "DevOps"}

\* A folder holds one file with a resume extension, readable or not, and up
\* to MaxOtherFiles other files before and after it.
MaxOtherFiles == 1
OtherFiles(first, n) == [k \in 1..n |-> FolderFile(first + k - 1, "other", <<>>)]

ResumeFiles(name) ==
    {FolderFile(name, "resume", t) : t \in FolderTexts}
    \cup {FolderFile(name, "unreadable", <<>>)}

FoldersOf ==
    UNION {{OtherFiles(1, a) \o <<f>> \o OtherFiles(a + 2, b) : f \in ResumeFiles(a + 1)} :
              a \in 0..MaxOtherFiles, b \in 0..MaxOtherFiles}

\* No process_folder call is in progress.
FolderIdle ==
    /\ folder = <<>>
    /\ target = ""
    /\ folder_pos = 0
    /\ folder_results = <<>>
    /\ folder_status = "idle"

\* Pieces of the resumes uploaded to the page: degree keywords of each
\* level, words that hold a keyword inside ("Systems", "Jobs"), universities,
\* and an experience, a company and an achievement part that each name more
\* than its bucket of grade_resume counts.
DegreeFragments == <<
    Chars("PhD in Physics"),
    Chars("Doctorate"),
    Chars("Master of Science"),
    Chars("M.Sc"),
    Chars("Bachelor of Arts"),
    Chars("B.Tech"),
    Chars("Education"),
    Chars("Information Systems"),
    Chars("Jobs"),
    Chars("MIT, Stanford"),
    Chars("Senior Lead, 12 years of experience"),
    Chars("Google, Microsoft, Amazon, Apple. Certified"),
    Chars("Award, patent, published, improved, increased, reduced") >>

MaxDegreeFragments == 3

\* The pieces with index in S, from index i on, one per line.
RECURSIVE JoinDegrees(_, _)
JoinDegrees(S, i) ==
    IF i > Len(DegreeFragments) THEN <<>>
    ELSE IF i \in S
    THEN LET rest == JoinDegrees(S, i + 1)
         IN  IF rest = <<>> THEN DegreeFragments[i]
             ELSE DegreeFragments[i] \o <<"\n">> \o rest
    ELSE JoinDegrees(S, i + 1)

\* The texts handed to analyze_resume; the empty text is one of them.
WebTexts ==
    {JoinDegrees(S, 1) :
        S \in {S \in SUBSET DOMAIN DegreeFragments : Cardinality(S) <= MaxDegreeFragments}}

\* The positions offered by the page's select box.
WebPositions == {"software_engineer", "data_scientist", "devops", "full_stack"}

\* No analyze_resume call is in progress.
WebIdle ==
    /\ web_text = <<>>
    /\ web_position = ""
    /\ analysis = <<>>
    /\ web_status = "idle"

\* The folders an agent lives on: one resume email that is OldDays old and
\* a number of emails of today, all inside the window of a cycle. Today's
\* emails are resume emails; in some folders the fetch of the last but one
\* raises.
OldDays == 3
TodaysEmails == {40, IntakeWindow - 1}
ResumeKind ==
    [fetch |-> "ok", decode |-> "ok", attachment |-> "saved", mentions_resume |-> FALSE]
FetchRaisesKind ==
    [fetch |-> "raises", decode |-> "ok", attachment |-> "saved", mentions_resume |-> FALSE]
Mailboxes ==
    {[i \in 1..(n + 1) |->
         Stored(Email(i, IF failing /\ i = n THEN FetchRaisesKind ELSE ResumeKind),
                IF i = 1 THEN OldDays ELSE 0)] : n \in TodaysEmails, failing \in BOOLEAN}

\* The cycles an agent is asked for: a normal cycle with the default
\* look-back of a week or with a look-back of one day, and a forced rescan of
\* the last day; a forced rescan is asked for while fewer than MaxRecorded
\* ids are held in memory.
Cycles ==
    {[days_back |-> 7, ignore_processed |-> FALSE],
     [days_back |-> 1, ignore_processed |-> FALSE],
     [days_back |-> 1, ignore_processed |-> TRUE]}
MaxRecorded == 1040

\* No agent is alive.
AgentIdle ==
    /\ mailbox = <<>>
    /\ agent_processed = <<>>
    /\ processed_file = <<>>
    /\ known_before = {}
    /\ cycle_forced = FALSE
    /\ cycle_saved = <<>>
    /\ cycle_returned = <<>>

\* The runs of run_once: at most MaxRunEmails emails with up to two
\* attachments each, under the minimum score of the default configuration;
\* the grades lie around its two thresholds.
MaxRunEmails == 2
MinimumScores == {70}
GradeOffsets == {-1, 0, 9, 10}
AttachmentKinds(min_score) ==
    {[read |-> "ok", grade |-> IntGrade(min_score + d)] : d \in GradeOffsets}
    \cup {[read |-> "ok", grade |-> StrGrade], [read |-> "empty", grade |-> IntGrade(0)]}
RunAttachments(min_score) ==
    {<<>>} \cup {<<a>> : a \in AttachmentKinds(min_score)}
           \cup {<<a, b>> : a \in AttachmentKinds(min_score), b \in AttachmentKinds(min_score)}

\* No run is in progress.
RunIdle ==
    /\ minimum_score = 0
    /\ automatic_response = FALSE
    /\ send_responses = FALSE
    /\ total_emails = 0
    /\ run_pos = 0
    /\ run_results = <<>>
    /\ responses_sent = 0
    /\ deliveries = <<>>
    /\ run_status = "idle"
    /\ summary = early_return("idle")

\* The configs of a DecisionMakerAgent: the UnifiedConfig of LLMScreener,
\* which has attributes only and neither use_llm_for_decision nor use_gpt,
\* and configs with a method get.
DecisionConfigs ==
    {[has_get |-> FALSE, use_llm_for_decision |-> TRUE, use_gpt |-> FALSE]}
    \cup {[has_get |-> TRUE, use_llm_for_decision |-> llm, use_gpt |-> gpt] :
              llm \in BOOLEAN, gpt \in BOOLEAN}

\* The lists of batch_process: at most MaxCandidates results in the order
\* of os.listdir, each with the grade of its grading_result.
MaxCandidates == 4
DecisionLists ==
    UNION {{[i \in 1..len |-> Candidate(i, "graded", f[i])] :
                f \in [1..len -> GradeValues]} : len \in 0..MaxCandidates}

\* The call of the GPT model: it raises, or its answer names no candidate
\* (-1) or the candidate with a one-digit number.
GptOutcomes ==
    {[raised |-> TRUE, selection |-> -1]}
    \cup {[raised |-> FALSE, selection |-> d] : d \in -1..(MaxCandidates + 1)}

\* No decision is asked for.
DecisionIdle ==
    /\ decision_config = [has_get |-> FALSE, use_llm_for_decision |-> TRUE, use_gpt |-> FALSE]
    /\ gpt_outcome = [raised |-> TRUE, selection |-> -1]
    /\ candidates = <<>>
    /\ decision = NoDecision
    /\ decision_status = "idle"

\* The sentences of a resume: texts that the rules classify, and a text
\* with each of the answers a model can give.
RuleSentences ==
    {[text |-> t, answer |-> ""] :
        t \in {Chars("Email john at example.com."), Chars("Phone 555 0100."),
               Chars("Python expert."), Chars("Worked 5 years."),
               Chars("Bachelor degree."), Chars("Team player."),
               Chars("Phone support skills.")}}
ModelSentences ==
    {[text |-> Chars("Lives in Oslo."), answer |-> a] :
        a \in {"personal_information", "experience", "unknown", "error"}}
        \cup {[text |-> Chars("Python expert."), answer |-> "skill"]}

\* The resumes: at most MaxSentences sentences.
MaxSentences == 3
RECURSIVE SentenceLists(_, _)
SentenceLists(S, len) ==
    IF len = 0 THEN {<<>>}
    ELSE SentenceLists(S, len - 1)
         \cup {Append(q, x) : q \in {p \in SentenceLists(S, len - 1) : Len(p) = len - 1},
                              x \in S}

\* The classification before the classifier has run.
NoClassification ==
    [classified_sentences |-> <<>>, filtered_text |-> <<>>,
     category_statistics |-> <<>>, total_sentences |-> 0, filtered_sentences |-> 0]

\* No resume is on its way to the grader.
PipelineIdle ==
    /\ entry = "none"
    /\ use_mock = TRUE
    /\ remove_personal_info = TRUE
    /\ sentences = <<>>
    /\ classification = NoClassification
    /\ grader_input = <<>>
    /\ pipeline_status = "idle"

-----------------------------------------------------------------------------
(* The session: a caller with the rule-based screener grades a text, a      *)
(* second one and the first again, and matches the skills of each against  *)
(* the position (as process_folder, the web wrapper's analyze_resume and   *)
(* EmailAgent.process_resumes do); a caller with the LLM screener extracts  *)
(* the skills of a text and matches them (as process_resume does); or the  *)
(* caller hands calculate_position_match a skill list of its own.          *)

Init ==
    /\ skill_weights = InitSkillWeights
    /\ position_requirements = InitPositionRequirements
    /\ mode \in {"rule_based", "llm"}
    /\ position \in PositionIds
    /\ \/ /\ mode = "rule_based"
          /\ \E S \in SectionSets : \E b \in Revisions(S) :
                texts = <<JoinFrom(S, 1), b, JoinFrom(S, 1)>>
          /\ skills_arg = <<>>
       \/ /\ mode = "llm"
          /\ \E a \in Texts : texts = <<a>>
          /\ skills_arg = <<>>
       \/ /\ texts = <<>>
          /\ skills_arg \in SkillLists
    /\ graded = <<>>
    /\ extracted = <<>>
    /\ matches = <<>>
    /\ direct_match = <<>>
    /\ RankingIdle
    /\ BatchIdle
    /\ IntakeIdle
    /\ GraderIdle
    /\ FolderIdle
    /\ WebIdle
    /\ AgentIdle
    /\ RunIdle
    /\ DecisionIdle
    /\ PipelineIdle

\* RealisticResumeScreener.grade_resume on the next text.
GradeResume ==
    /\ mode = "rule_based"
    /\ Len(graded) = Len(matches)
    /\ Len(graded) < Len(texts)
    /\ graded' = Append(graded,
                   grade_resume(skill_weights, position_requirements,
                                texts[Len(graded) + 1], position))
    /\ LET after == tables_after_grade(skill_weights, position_requirements,
                                       texts[Len(graded) + 1], position)
       IN  /\ skill_weights' = after.skill_weights
           /\ position_requirements' = after.position_requirements
    /\ UNCHANGED <<mode, texts, position, skills_arg, extracted, matches, direct_match>>
    /\ UNCHANGED <<rankingVars, batchVars, intakeVars, graderVars, folderVars, webVars, agentVars, runVars, decisionVars, pipelineVars>>

\* RealisticResumeScreener.calculate_position_match on the skills just found.
CalculatePositionMatch ==
    /\ mode = "rule_based"
    /\ Len(graded) = Len(matches) + 1
    /\ matches' = Append(matches,
                    calculate_position_match(position_requirements,
                                             graded[Len(graded)].skills_found, position))
    /\ UNCHANGED <<skill_weights, position_requirements, mode, texts, position,
                   skills_arg, graded, extracted, direct_match>>
    /\ UNCHANGED <<rankingVars, batchVars, intakeVars, graderVars, folderVars, webVars, agentVars, runVars, decisionVars, pipelineVars>>

\* LLMScreener._extract_skills_rule_based on the next text.
ExtractSkillsRuleBased ==
    /\ mode = "llm"
    /\ Len(extracted) = Len(matches)
    /\ Len(extracted) < Len(texts)
    /\ extracted' = Append(extracted, extract_skills_rule_based(texts[Len(extracted) + 1]))
    /\ UNCHANGED <<skill_weights, position_requirements, mode, texts, position,
                   skills_arg, graded, matches, direct_match>>
    /\ UNCHANGED <<rankingVars, batchVars, intakeVars, graderVars, folderVars, webVars, agentVars, runVars, decisionVars, pipelineVars>>

\* LLMScreener._calculate_match on the skills just extracted.
CalculateMatch ==
    /\ mode = "llm"
    /\ Len(extracted) = Len(matches) + 1
    /\ matches' = Append(matches, calculate_match(extracted[Len(extracted)], position))
    /\ UNCHANGED <<skill_weights, position_requirements, mode, texts, position,
                   skills_arg, graded, extracted, direct_match>>
    /\ UNCHANGED <<rankingVars, batchVars, intakeVars, graderVars, folderVars, webVars, agentVars, runVars, decisionVars, pipelineVars>>

\* calculate_position_match called on the caller's own skill list, on the
\* screener of the session.
DirectPositionMatch ==
    /\ texts = <<>>
    /\ direct_match = <<>>
    /\ direct_match' =
         <<IF mode = "rule_based"
           THEN calculate_position_match(position_requirements, skills_arg, position)
           ELSE calculate_match(skills_arg, position)>>
    /\ UNCHANGED <<skill_weights, position_requirements, mode, texts, position,
                   skills_arg, graded, extracted, matches>>
    /\ UNCHANGED <<rankingVars, batchVars, intakeVars, graderVars, folderVars, webVars, agentVars, runVars, decisionVars, pipelineVars>>

Next ==
    \/ GradeResume
    \/ CalculatePositionMatch
    \/ ExtractSkillsRuleBased
    \/ CalculateMatch
    \/ DirectPositionMatch

Spec == Init /\ [][Next]_vars

-----------------------------------------------------------------------------
(* A caller ranks a list of candidate records.                              *)

InitRanking ==
    /\ ScreenerIdle
    /\ graded_resumes \in CandidateLists
    /\ caller_copy = graded_resumes
    /\ \/ n_given = FALSE /\ n_arg = 0
       \/ n_given = TRUE /\ n_arg \in NArgs
    /\ top_candidates = <<>>
    /\ BatchIdle
    /\ IntakeIdle
    /\ GraderIdle
    /\ FolderIdle
    /\ WebIdle
    /\ AgentIdle
    /\ RunIdle
    /\ DecisionIdle
    /\ PipelineIdle

\* DecisionMakerAgent.select_top_candidates(graded_resumes, n).
SelectTopCandidates ==
    /\ top_candidates = <<>>
    /\ top_candidates' = <<select_top_candidates(graded_resumes, n_given, n_arg)>>
    /\ graded_resumes' = records_after_select(graded_resumes, n_given, n_arg)
    /\ UNCHANGED <<caller_copy, n_given, n_arg>>
    /\ UNCHANGED <<screenerVars, batchVars, intakeVars, graderVars, folderVars, webVars, agentVars, runVars, decisionVars, pipelineVars>>

NextRanking == SelectTopCandidates

SpecRanking == InitRanking /\ [][NextRanking]_vars

-----------------------------------------------------------------------------
(* A caller screens a batch: a folder with batch_process, or the emails of  *)
(* an intake cycle with process_resumes.                                    *)

InitBatch ==
    /\ ScreenerIdle
    /\ RankingIdle
    /\ \/ batch_kind = "folder" /\ batch_input \in Folders
       \/ batch_kind = "email" /\ batch_input \in EmailLists
    /\ cursor = <<1, 1>>
    /\ results = <<>>
    /\ batch_status = "running"
    /\ IntakeIdle
    /\ GraderIdle
    /\ FolderIdle
    /\ WebIdle
    /\ AgentIdle
    /\ RunIdle
    /\ DecisionIdle
    /\ PipelineIdle

\* batch_process: `for file_path in tqdm(files)`, one file.
BatchProcessFile ==
    /\ batch_kind = "folder"
    /\ batch_status = "running"
    /\ cursor[1] <= Len(batch_input)
    /\ LET after == batch_process_file(results, batch_input[cursor[1]])
       IN  /\ results' = after.results
           /\ batch_status' = IF after.raised THEN "raised" ELSE "running"
           /\ cursor' = IF after.raised THEN cursor ELSE <<cursor[1] + 1, 1>>
    /\ UNCHANGED <<batch_kind, batch_input>>
    /\ UNCHANGED <<screenerVars, rankingVars, intakeVars, graderVars, folderVars, webVars, agentVars, runVars, decisionVars, pipelineVars>>

\* process_resumes: an email without attachments is skipped.
SkipEmailWithoutAttachments ==
    /\ batch_kind = "email"
    /\ batch_status = "running"
    /\ cursor[1] <= Len(batch_input)
    /\ batch_input[cursor[1]] = <<>>
    /\ cursor' = <<cursor[1] + 1, 1>>
    /\ UNCHANGED <<batch_kind, batch_input, results, batch_status>>
    /\ UNCHANGED <<screenerVars, rankingVars, intakeVars, graderVars, folderVars, webVars, agentVars, runVars, decisionVars, pipelineVars>>

\* process_resumes: `for attachment in email_data["attachments"]`, one
\* attachment.
ScreenAttachment ==
    /\ batch_kind = "email"
    /\ batch_status = "running"
    /\ cursor[1] <= Len(batch_input)
    /\ cursor[2] <= Len(batch_input[cursor[1]])
    /\ LET attachments == batch_input[cursor[1]]
           after == screen_attachment(results, attachments[cursor[2]])
       IN  /\ results' = after.results
           /\ batch_status' = IF after.raised THEN "raised" ELSE "running"
           /\ cursor' = IF after.raised THEN cursor
                        ELSE IF cursor[2] = Len(attachments) THEN <<cursor[1] + 1, 1>>
                        ELSE <<cursor[1], cursor[2] + 1>>
    /\ UNCHANGED <<batch_kind, batch_input>>
    /\ UNCHANGED <<screenerVars, rankingVars, intakeVars, graderVars, folderVars, webVars, agentVars, runVars, decisionVars, pipelineVars>>

\* `return results` of either method, after the last pass of its loop.
ReturnResults ==
    /\ batch_kind \in {"folder", "email"}
    /\ batch_status = "running"
    /\ cursor[1] > Len(batch_input)
    /\ batch_status' = "returned"
    /\ UNCHANGED <<batch_kind, batch_input, cursor, results>>
    /\ UNCHANGED <<screenerVars, rankingVars, intakeVars, graderVars, folderVars, webVars, agentVars, runVars, decisionVars, pipelineVars>>

NextBatch ==
    \/ BatchProcessFile
    \/ SkipEmailWithoutAttachments
    \/ ScreenAttachment
    \/ ReturnResults

SpecBatch == InitBatch /\ [][NextBatch]_vars

-----------------------------------------------------------------------------
(* An intake cycle: check_for_new_resumes on an inbox, some of whose        *)
(* emails an earlier cycle has recorded in processed_emails.                *)

InitIntake ==
    /\ ScreenerIdle
    /\ RankingIdle
    /\ BatchIdle
    /\ inbox \in Inboxes
    /\ ignore_processed \in BOOLEAN
    /\ processed_emails \in {<<>>, <<1>>}
    /\ intake_pos = 1
    /\ new_resumes = <<>>
    /\ intake_status = "running"
    /\ returned_resumes = <<>>
    /\ GraderIdle
    /\ FolderIdle
    /\ WebIdle
    /\ AgentIdle
    /\ RunIdle
    /\ DecisionIdle
    /\ PipelineIdle

\* `for email_id in email_ids[-50:]`, one email; when the pass raises, the
\* handler of the method returns.
IntakeEmail ==
    /\ intake_status = "running"
    /\ intake_pos <= Len(LastEmails(inbox))
    /\ LET after == intake_email(LastEmails(inbox)[intake_pos], ignore_processed,
                                 processed_emails, new_resumes)
       IN  /\ processed_emails' = after.processed_emails
           /\ new_resumes' = after.new_resumes
           /\ IF after.raised
              THEN /\ intake_status' = "returned"
                   /\ returned_resumes' = intake_handler(after.new_resumes)
                   /\ intake_pos' = intake_pos
              ELSE /\ intake_status' = "running"
                   /\ returned_resumes' = returned_resumes
                   /\ intake_pos' = intake_pos + 1
    /\ UNCHANGED <<inbox, ignore_processed>>
    /\ UNCHANGED <<screenerVars, rankingVars, batchVars, graderVars, folderVars, webVars, agentVars, runVars, decisionVars, pipelineVars>>

\* mail.close(); mail.logout(); return new_resumes
ReturnNewResumes ==
    /\ intake_status = "running"
    /\ intake_pos > Len(LastEmails(inbox))
    /\ intake_status' = "returned"
    /\ returned_resumes' = new_resumes
    /\ UNCHANGED <<inbox, ignore_processed, processed_emails, intake_pos, new_resumes>>
    /\ UNCHANGED <<screenerVars, rankingVars, batchVars, graderVars, folderVars, webVars, agentVars, runVars, decisionVars, pipelineVars>>

NextIntake ==
    \/ IntakeEmail
    \/ ReturnNewResumes

SpecIntake == InitIntake /\ [][NextIntake]_vars

-----------------------------------------------------------------------------
(* The LLM path: the grader asks its generator for a response, parses it,   *)
(* and LLMScreener reports the grade as the score of the resume.            *)

\* _setup_local_model names AutoTokenizer, which the module never imports:
\* the NameError is caught and the grader falls back to _generate_mock, so
\* the generators in use are the mock and, with use_gpt and an API key, GPT.
InitGrader ==
    /\ ScreenerIdle
    /\ RankingIdle
    /\ BatchIdle
    /\ IntakeIdle
    /\ FolderIdle
    /\ WebIdle
    /\ AgentIdle
    /\ RunIdle
    /\ DecisionIdle
    /\ PipelineIdle
    /\ generator \in {"mock", "gpt"}
    /\ response \in Responses(generator)
    /\ grading_result = <<>>
    /\ grader_status = "called"
    /\ scores = <<>>

\* HRGraderAgent.grade_and_summarize on the response.
GradeAndSummarize ==
    /\ grader_status = "called"
    /\ LET out == grade_and_summarize(response)
       IN  /\ grader_status' = IF out.raised THEN "raised" ELSE "returned"
           /\ grading_result' = IF out.raised THEN <<>> ELSE <<out.grade>>
    /\ UNCHANGED <<generator, response, scores>>
    /\ UNCHANGED <<screenerVars, rankingVars, batchVars, intakeVars, folderVars, webVars, agentVars, runVars, decisionVars, pipelineVars>>

\* LLMScreener.process_resume ("score") and LLMScreener.grade_resume (the
\* grade of the pair) report the grade.
ReportScore ==
    /\ grader_status = "returned"
    /\ scores = <<>>
    /\ scores' = <<grade_or_zero(grading_result[1])>>
    /\ UNCHANGED <<generator, response, grading_result, grader_status>>
    /\ UNCHANGED <<screenerVars, rankingVars, batchVars, intakeVars, folderVars, webVars, agentVars, runVars, decisionVars, pipelineVars>>

NextGrader ==
    \/ GradeAndSummarize
    \/ ReportScore

SpecGrader == InitGrader /\ [][NextGrader]_vars

-----------------------------------------------------------------------------
(* process_folder on an existing folder (a missing folder is replaced by    *)
(* ./resumes with the sample resumes before the loop starts).               *)

InitFolder ==
    /\ ScreenerIdle
    /\ RankingIdle
    /\ BatchIdle
    /\ IntakeIdle
    /\ GraderIdle
    /\ WebIdle
    /\ AgentIdle
    /\ RunIdle
    /\ DecisionIdle
    /\ PipelineIdle
    /\ folder \in FoldersOf
    /\ target \in FolderPositions
    /\ folder_pos = 1
    /\ folder_results = <<>>
    /\ folder_status = "running"

\* One iteration of `for filename in os.listdir(folder_path)`.
ProcessFolderFile ==
    /\ folder_status = "running"
    /\ folder_pos <= Len(folder)
    /\ folder_results' = process_folder_file(skill_weights, position_requirements,
                                             folder_results, folder[folder_pos], target)
    /\ folder_pos' = folder_pos + 1
    /\ UNCHANGED <<folder, target, folder_status>>
    /\ UNCHANGED <<screenerVars, rankingVars, batchVars, intakeVars, graderVars, webVars, agentVars, runVars, decisionVars, pipelineVars>>

\* `return results`
ReturnFolderResults ==
    /\ folder_status = "running"
    /\ folder_pos > Len(folder)
    /\ folder_status' = "returned"
    /\ UNCHANGED <<folder, target, folder_pos, folder_results>>
    /\ UNCHANGED <<screenerVars, rankingVars, batchVars, intakeVars, graderVars, webVars, agentVars, runVars, decisionVars, pipelineVars>>

NextFolder ==
    \/ ProcessFolderFile
    \/ ReturnFolderResults

SpecFolder == InitFolder /\ [][NextFolder]_vars

-----------------------------------------------------------------------------
(* The web page: analyze_resume on an uploaded text, then the display of    *)
(* the analysis.                                                            *)

InitWeb ==
    /\ ScreenerIdle
    /\ RankingIdle
    /\ BatchIdle
    /\ IntakeIdle
    /\ GraderIdle
    /\ FolderIdle
    /\ AgentIdle
    /\ RunIdle
    /\ DecisionIdle
    /\ PipelineIdle
    /\ web_text \in WebTexts
    /\ web_position \in WebPositions
    /\ analysis = <<>>
    /\ web_status = "called"

\* wrapper.analyze_resume(text, position)
AnalyzeResume ==
    /\ web_status = "called"
    /\ analysis' = <<analyze_resume(skill_weights, position_requirements,
                                    web_text, web_position)>>
    /\ web_status' = "returned"
    /\ UNCHANGED <<web_text, web_position>>
    /\ UNCHANGED <<screenerVars, rankingVars, batchVars, intakeVars, graderVars, folderVars, agentVars, runVars, decisionVars, pipelineVars>>

\* The page shows the analysis and is ready for the next upload.
ShowAnalysis ==
    /\ web_status = "returned"
    /\ web_status' = "shown"
    /\ UNCHANGED <<web_text, web_position, analysis>>
    /\ UNCHANGED <<screenerVars, rankingVars, batchVars, intakeVars, graderVars, folderVars, agentVars, runVars, decisionVars, pipelineVars>>

NextWeb ==
    \/ AnalyzeResume
    \/ ShowAnalysis

SpecWeb == InitWeb /\ [][NextWeb]_vars

-----------------------------------------------------------------------------
(* An agent over time: cycles with and without ignore_processed, and        *)
(* restarts that reload processed_emails.json.                              *)

InitAgent ==
    /\ ScreenerIdle
    /\ RankingIdle
    /\ BatchIdle
    /\ IntakeIdle
    /\ GraderIdle
    /\ FolderIdle
    /\ WebIdle
    /\ RunIdle
    /\ DecisionIdle
    /\ PipelineIdle
    /\ mailbox \in Mailboxes
    /\ agent_processed = <<>>
    /\ processed_file = <<>>
    /\ known_before = {}
    /\ cycle_forced = FALSE
    /\ cycle_saved = <<>>
    /\ cycle_returned = <<>>

\* One call of check_for_new_resumes.
CheckForNewResumes ==
    /\ mailbox # <<>>
    /\ \E cycle \in Cycles :
        /\ cycle.ignore_processed => Len(agent_processed) < MaxRecorded
        /\ LET out == check_for_new_resumes(mailbox, cycle.days_back,
                                            cycle.ignore_processed,
                                            agent_processed, processed_file)
           IN  /\ agent_processed' = out.processed_emails
               /\ processed_file' = out.file
               /\ cycle_saved' = SubSeq(out.processed_emails, Len(agent_processed) + 1,
                                        Len(out.processed_emails))
               /\ cycle_returned' = out.returned
        /\ cycle_forced' = cycle.ignore_processed
        /\ known_before' = known_before \cup Range(agent_processed)
    /\ UNCHANGED mailbox
    /\ UNCHANGED <<screenerVars, rankingVars, batchVars, intakeVars, graderVars, folderVars,
                   webVars, runVars, decisionVars, pipelineVars>>

\* The agent is started again: __init__ calls load_processed_emails.
Restart ==
    /\ mailbox # <<>>
    /\ agent_processed' = processed_file
    /\ known_before' = known_before \cup Range(agent_processed)
    /\ cycle_forced' = FALSE
    /\ cycle_saved' = <<>>
    /\ cycle_returned' = <<>>
    /\ UNCHANGED <<mailbox, processed_file>>
    /\ UNCHANGED <<screenerVars, rankingVars, batchVars, intakeVars, graderVars, folderVars,
                   webVars, runVars, decisionVars, pipelineVars>>

NextAgent ==
    \/ CheckForNewResumes
    \/ Restart

SpecAgent == InitAgent /\ [][NextAgent]_vars

-----------------------------------------------------------------------------
(* run_once: process the resumes of the cycle, send the responses, save     *)
(* and summarise.                                                           *)

InitRun ==
    /\ ScreenerIdle
    /\ RankingIdle
    /\ BatchIdle
    /\ IntakeIdle
    /\ GraderIdle
    /\ FolderIdle
    /\ WebIdle
    /\ AgentIdle
    /\ DecisionIdle
    /\ PipelineIdle
    /\ minimum_score \in MinimumScores
    /\ automatic_response \in BOOLEAN
    /\ send_responses \in BOOLEAN
    /\ total_emails \in 0..MaxRunEmails
    /\ run_pos = 1
    /\ run_results = <<>>
    /\ responses_sent = 0
    /\ deliveries = <<>>
    /\ run_status = "processing"
    /\ summary = early_return("running")

\* `if not new_resumes: return {"status": "no_new_resumes"}`
NoNewResumes ==
    /\ run_status = "processing"
    /\ total_emails = 0
    /\ run_status' = "returned"
    /\ summary' = early_return("no_new_resumes")
    /\ UNCHANGED <<minimum_score, automatic_response, send_responses, total_emails,
                   run_pos, run_results, responses_sent, deliveries>>
    /\ UNCHANGED <<screenerVars, rankingVars, batchVars, intakeVars, graderVars, folderVars, webVars, agentVars, decisionVars, pipelineVars>>

\* process_resumes, one email of new_resumes with its attachments.
ProcessEmail ==
    /\ run_status = "processing"
    /\ total_emails > 0
    /\ run_pos <= total_emails
    /\ \E attachments \in RunAttachments(minimum_score) :
        run_results' = process_attachments(run_results, attachments, 1, minimum_score)
    /\ run_pos' = run_pos + 1
    /\ UNCHANGED <<minimum_score, automatic_response, send_responses, total_emails,
                   responses_sent, deliveries, run_status, summary>>
    /\ UNCHANGED <<screenerVars, rankingVars, batchVars, intakeVars, graderVars, folderVars, webVars, agentVars, decisionVars, pipelineVars>>

\* process_resumes has returned: `if not results: return
\* {"status": "no_valid_resumes"}`, else step 3 begins, or is passed over
\* when responses are not to be sent.
ResumesProcessed ==
    /\ run_status = "processing"
    /\ total_emails > 0
    /\ run_pos > total_emails
    /\ IF run_results = <<>>
       THEN /\ run_status' = "returned"
            /\ summary' = early_return("no_valid_resumes")
       ELSE /\ run_status' = IF send_responses /\ automatic_response
                             THEN "sending" ELSE "saving"
            /\ summary' = summary
    /\ run_pos' = 1
    /\ UNCHANGED <<minimum_score, automatic_response, send_responses, total_emails,
                   run_results, responses_sent, deliveries>>
    /\ UNCHANGED <<screenerVars, rankingVars, batchVars, intakeVars, graderVars, folderVars, webVars, agentVars, decisionVars, pipelineVars>>

\* `if self.send_email_response(result):` for one result; delivered is what
\* send_email_response returns (False when anything in it raised).
SendResponse ==
    /\ run_status = "sending"
    /\ run_pos <= Len(run_results)
    /\ \E delivered \in BOOLEAN :
        /\ run_results' = IF delivered
                          THEN [run_results EXCEPT ![run_pos].sent = TRUE]
                          ELSE run_results
        /\ responses_sent' = IF delivered THEN responses_sent + 1 ELSE responses_sent
        /\ deliveries' = Append(deliveries, delivered)
    /\ run_pos' = run_pos + 1
    /\ run_status' = IF run_pos = Len(run_results) THEN "saving" ELSE "sending"
    /\ UNCHANGED <<minimum_score, automatic_response, send_responses, total_emails, summary>>
    /\ UNCHANGED <<screenerVars, rankingVars, batchVars, intakeVars, graderVars, folderVars, webVars, agentVars, decisionVars, pipelineVars>>

\* Step 4 and the summary.
Summarise ==
    /\ run_status = "saving"
    /\ run_status' = "returned"
    /\ summary' = run_summary(total_emails, run_results, responses_sent)
    /\ UNCHANGED <<minimum_score, automatic_response, send_responses, total_emails,
                   run_pos, run_results, responses_sent, deliveries>>
    /\ UNCHANGED <<screenerVars, rankingVars, batchVars, intakeVars, graderVars, folderVars, webVars, agentVars, decisionVars, pipelineVars>>

NextRun ==
    \/ NoNewResumes
    \/ ProcessEmail
    \/ ResumesProcessed
    \/ SendResponse
    \/ Summarise

SpecRun == InitRun /\ [][NextRun]_vars

-----------------------------------------------------------------------------
(* The hiring decision over the results of a batch.                         *)

InitDecision ==
    /\ ScreenerIdle
    /\ RankingIdle
    /\ BatchIdle
    /\ IntakeIdle
    /\ GraderIdle
    /\ FolderIdle
    /\ WebIdle
    /\ AgentIdle
    /\ RunIdle
    /\ PipelineIdle
    /\ decision_config \in DecisionConfigs
    /\ gpt_outcome \in IF decision_config.has_get /\ decision_config.use_llm_for_decision
                          /\ decision_config.use_gpt
                       THEN GptOutcomes ELSE {[raised |-> TRUE, selection |-> -1]}
    /\ candidates \in DecisionLists
    /\ decision = NoDecision
    /\ decision_status = "called"

\* make_hiring_decision(results)
MakeHiringDecision ==
    /\ decision_status = "called"
    /\ LET out == make_hiring_decision(decision_config, gpt_outcome, candidates)
       IN  /\ decision' = out.value
           /\ decision_status' = IF out.raised = "" THEN "returned" ELSE out.raised
    /\ UNCHANGED <<decision_config, gpt_outcome, candidates>>
    /\ UNCHANGED <<screenerVars, rankingVars, batchVars, intakeVars, graderVars, folderVars, webVars, agentVars, runVars, pipelineVars>>

NextDecision == MakeHiringDecision

SpecDecision == InitDecision /\ [][NextDecision]_vars

-----------------------------------------------------------------------------
(* A resume on its way to the grader.                                       *)

InitPipeline ==
    /\ ScreenerIdle
    /\ RankingIdle
    /\ BatchIdle
    /\ IntakeIdle
    /\ GraderIdle
    /\ FolderIdle
    /\ WebIdle
    /\ AgentIdle
    /\ RunIdle
    /\ DecisionIdle
    /\ entry \in {"process_resume", "grade_resume"}
    /\ use_mock \in BOOLEAN
    /\ remove_personal_info \in BOOLEAN
    /\ sentences \in SentenceLists(IF use_mock THEN RuleSentences ELSE ModelSentences,
                                   MaxSentences)
    /\ classification = NoClassification
    /\ grader_input = <<>>
    /\ pipeline_status = "parsed"

\* Stage 2 of LLMScreener.process_resume: self.classifier.process_resume.
Classify ==
    /\ pipeline_status = "parsed"
    /\ entry = "process_resume"
    /\ classification' = classifier_process_resume(sentences, use_mock, remove_personal_info)
    /\ pipeline_status' = "classified"
    /\ UNCHANGED <<entry, use_mock, remove_personal_info, sentences, grader_input>>
    /\ UNCHANGED <<screenerVars, rankingVars, batchVars, intakeVars, graderVars, folderVars, webVars, agentVars, runVars, decisionVars>>

\* Stage 3 of LLMScreener.process_resume: grade_and_summarize(filtered_text).
GradeFiltered ==
    /\ pipeline_status = "classified"
    /\ grader_input' = process_resume_grader_input(classification)
    /\ pipeline_status' = "graded"
    /\ UNCHANGED <<entry, use_mock, remove_personal_info, sentences, classification>>
    /\ UNCHANGED <<screenerVars, rankingVars, batchVars, intakeVars, graderVars, folderVars, webVars, agentVars, runVars, decisionVars>>

\* LLMScreener.grade_resume(text, target_position), as the EmailAgent calls
\* it with the text of an attachment.
GradeResumeWrapper ==
    /\ pipeline_status = "parsed"
    /\ entry = "grade_resume"
    /\ grader_input' = grade_resume_grader_input(raw_text(sentences))
    /\ pipeline_status' = "graded"
    /\ UNCHANGED <<entry, use_mock, remove_personal_info, sentences, classification>>
    /\ UNCHANGED <<screenerVars, rankingVars, batchVars, intakeVars, graderVars, folderVars, webVars, agentVars, runVars, decisionVars>>

NextPipeline ==
    \/ Classify
    \/ GradeFiltered
    \/ GradeResumeWrapper

SpecPipeline == InitPipeline /\ [][NextPipeline]_vars

-----------------------------------------------------------------------------
(* Properties of grade_resume and of the position match                     *)

\* The calls of grade_resume made on a non-empty text.
NonEmptyCalls == {i \in DOMAIN graded : Len(texts[i]) > 0}

\* The four positions of both requirement tables.
SupportedPositions == {"software_engineer", "data_scientist", "devops", "full_stack"}

\* Every skill of the list occurs in the text as a word, in any case.
ContainsSkills(text, skills) ==
    \A k \in Range(skills) : SearchWord(Lower(text), Chars(k))

\* C1: for every non-empty text and every position, known or unknown,
\* grade_resume returns an integer grade g with 30 <= g <= 95, whatever
\* bonuses apply.
C1_GradeWithinBounds ==
    \A i \in NonEmptyCalls : graded[i].grade \in 30..95

\* A text whose bonuses add up to more than 95 was graded 95.
C1_Witness ==
    \E i \in NonEmptyCalls :
        /\ graded[i].score_num > 95 * graded[i].den
        /\ graded[i].grade = 95

\* C2: for the empty text and every position, grade_resume returns grade 0
\* and an empty skill list, and calculate_position_match on that list
\* returns 0.
C2_EmptyText ==
    \A i \in DOMAIN graded :
        Len(texts[i]) = 0 =>
            /\ graded[i].grade = 0
            /\ graded[i].skills_found = <<>>
            /\ (i \in DOMAIN matches => matches[i] = 0)

\* The empty text was graded and its skill list matched against a position
\* that has required skills.
C2_Witness ==
    /\ mode = "rule_based"
    /\ position \in DOMAIN position_requirements
    /\ \E i \in DOMAIN matches : Len(texts[i]) = 0

\* C3: for every supported position and every list of skill tokens, repeats
\* allowed, the position match that RealisticResumeScreener and LLMScreener
\* return is an integer in 0..100.
C3_MatchWithinRange ==
    position \in SupportedPositions =>
        /\ \A i \in DOMAIN matches : matches[i] \in 0..100
        /\ \A i \in DOMAIN direct_match : direct_match[i] \in 0..100

\* C4: in RealisticResumeScreener, for each of the four positions, a text in
\* which every required skill of the position occurs yields a skill list
\* whose position match is exactly 100.
C4_RealisticFullMatch ==
    (mode = "rule_based" /\ position \in DOMAIN InitPositionRequirements) =>
        \A i \in DOMAIN matches :
            \/ matches[i] = 100
            \/ ~ContainsSkills(texts[i], InitPositionRequirements[position])

\* A text with the five required skills of data_scientist was matched.
C4_Witness ==
    /\ mode = "rule_based"
    /\ position = "data_scientist"
    /\ \E i \in DOMAIN matches :
          /\ ContainsSkills(texts[i], InitPositionRequirements[position])
          /\ matches[i] = 100

\* C5: in LLMScreener, for each of its four positions, a text in which every
\* required skill of the position occurs yields position match 100 when the
\* skills are extracted by _extract_skills_rule_based and matched by
\* _calculate_match.
C5_LLMFullMatch ==
    (mode = "llm" /\ position \in DOMAIN LLMRequirements) =>
        \A i \in DOMAIN matches :
            \/ matches[i] = 100
            \/ ~ContainsSkills(texts[i], LLMRequirements[position])

DuplicateFree(skills) ==
    \A a, b \in DOMAIN skills : skills[a] = skills[b] => a = b

\* m is an integer nearest to num / den.
IsNearestInteger(m, num, den) ==
    /\ 2 * (num - m * den) <= den
    /\ 2 * (m * den - num) <= den

\* m is matched_count / required_count * 100 rounded to the nearest integer.
IsMatchRatio(m, skills, required) ==
    IsNearestInteger(m, Cardinality(Range(skills) \cap Range(required)) * 100,
                     Len(required))

\* C6: for a known position and a duplicate-free skill list,
\* calculate_position_match returns matched_count / required_count * 100
\* rounded to the nearest integer, matched_count being the number of listed
\* skills that are required; _calculate_match returns the same value for the
\* table of LLMScreener.
C6_MatchRatio ==
    /\ (mode = "rule_based" /\ position \in DOMAIN position_requirements) =>
          /\ \A i \in DOMAIN matches :
                DuplicateFree(graded[i].skills_found) =>
                    IsMatchRatio(matches[i], graded[i].skills_found,
                                 position_requirements[position])
          /\ \A i \in DOMAIN direct_match :
                DuplicateFree(skills_arg) =>
                    IsMatchRatio(direct_match[i], skills_arg,
                                 position_requirements[position])
    /\ (mode = "llm" /\ position \in DOMAIN LLMRequirements) =>
          /\ \A i \in DOMAIN matches :
                DuplicateFree(extracted[i]) =>
                    IsMatchRatio(matches[i], extracted[i], LLMRequirements[position])
          /\ \A i \in DOMAIN direct_match :
                DuplicateFree(skills_arg) =>
                    IsMatchRatio(direct_match[i], skills_arg, LLMRequirements[position])

\* Four of the six required skills were found: 66.67 was rounded to 67.
C6_Witness ==
    /\ mode = "rule_based"
    /\ position \in DOMAIN position_requirements
    /\ \E i \in DOMAIN matches :
          /\ DuplicateFree(graded[i].skills_found)
          /\ Cardinality(Range(graded[i].skills_found)
                         \cap Range(position_requirements[position])) = 4
          /\ Len(position_requirements[position]) = 6
          /\ matches[i] = 67

\* The weight of skill s in the weight table sw.
WeightOf(sw, s) == (CHOOSE e \in Range(sw) : e.skill = s).weight

\* The score of a graded text from its position-independent components: the
\* base, the capped experience, education, company, certification and
\* achievement points, and the weights of the skills found, scaled to 30.
PositionIndependentScore(r) ==
    (BaseScore + r.experience + r.education + r.company + r.certification
     + r.achievement) * r.den
    + 30 * SumSeq([k \in DOMAIN r.skills_found |->
                      WeightOf(skill_weights, r.skills_found[k])])

\* C7: for a position that is not in the position table,
\* calculate_position_match returns 0 for every skill list, and grade_resume
\* applies neither the +2 of a required skill nor a position-specific +5:
\* the grade is the one computed from the position-independent components.
C7_UnknownPosition ==
    (mode = "rule_based" /\ position \notin DOMAIN position_requirements) =>
        /\ \A i \in DOMAIN matches : matches[i] = 0
        /\ \A i \in DOMAIN direct_match : direct_match[i] = 0
        /\ \A i \in NonEmptyCalls :
              /\ graded[i].adjustment = 0
              /\ graded[i].score_num = PositionIndependentScore(graded[i])
              /\ graded[i].grade =
                    Round(final_score(PositionIndependentScore(graded[i]),
                                      graded[i].den), graded[i].den)

\* A text with three of the skills that earn devops its +5, all of them
\* required of devops, was graded and matched for a position that is no key
\* of the table.
C7_Witness ==
    /\ mode = "rule_based"
    /\ position \notin DOMAIN position_requirements
    /\ \E i \in DOMAIN matches :
          /\ CountIn(graded[i].skills_found, {"aws", "docker", "kubernetes", "cloud"}) >= 3
          /\ matches[i] = 0

\* The two graded texts earned the same experience, education, company,
\* certification and achievement points (texts with identical features do).
SameFeatures(r, q) ==
    /\ r.experience = q.experience
    /\ r.education = q.education
    /\ r.company = q.company
    /\ r.certification = q.certification
    /\ r.achievement = q.achievement

\* C8: for two non-empty texts with identical experience, education,
\* company, certification and achievement features and the same position,
\* if the skills recognised in the first are a subset of the skills
\* recognised in the second, the first grade is at most the second.
C8_MonotoneInSkills ==
    \A i, j \in NonEmptyCalls :
        \/ graded[i].grade <= graded[j].grade
        \/ ~SameFeatures(graded[i], graded[j])
        \/ ~(Range(graded[i].skills_found) \subseteq Range(graded[j].skills_found))

\* A text that has the position-specific +5 and the same text with one more
\* recognised skill were graded, the second higher.
C8_Witness ==
    \E i, j \in NonEmptyCalls :
        /\ SameFeatures(graded[i], graded[j])
        /\ Range(graded[i].skills_found) \subseteq Range(graded[j].skills_found)
        /\ Range(graded[i].skills_found) # Range(graded[j].skills_found)
        /\ graded[i].adjustment = 5
        /\ graded[i].grade < graded[j].grade

SameLetter(c, d) ==
    \/ c = d
    \/ d \in {LowerChar(c), UpperChar(c)}
    \/ c \in {LowerChar(d), UpperChar(d)}

\* t is s with the case of some of its letters changed.
CaseVariant(s, t) ==
    /\ Len(s) = Len(t)
    /\ \A k \in DOMAIN s : SameLetter(s[k], t[k])

\* t is s with the case of some of its ASCII letters changed.
AsciiCaseVariant(s, t) ==
    /\ Len(s) = Len(t)
    /\ \A k \in DOMAIN s :
          \/ s[k] = t[k]
          \/ ({s[k], t[k]} \subseteq AsciiLetters /\ LowerChar(s[k]) = LowerChar(t[k]))

SameResult(r, q) ==
    /\ r.grade = q.grade
    /\ r.skills_found = q.skills_found

\* C10 as stated: for every text and position, changing the case of any
\* letters of the text leaves the grade and the skill list of grade_resume
\* unchanged.
C10_CaseInvariant ==
    \A i, j \in DOMAIN graded :
        \/ SameResult(graded[i], graded[j])
        \/ ~CaseVariant(texts[i], texts[j])

\* C10, amended: for every text and position, changing the case of any of
\* the ASCII letters of the text (A-Z, a-z) leaves the grade and the skill
\* list of grade_resume unchanged.
C10_AsciiCaseInvariant ==
    \A i, j \in DOMAIN graded :
        \/ SameResult(graded[i], graded[j])
        \/ ~AsciiCaseVariant(texts[i], texts[j])

\* A text with experience and skills and the text in another case were
\* both graded.
C10_Witness ==
    \E i, j \in DOMAIN graded :
        /\ texts[i] # texts[j]
        /\ AsciiCaseVariant(texts[i], texts[j])
        /\ graded[i].experience > 0
        /\ graded[i].skills_found # <<>>

-----------------------------------------------------------------------------
(* Properties of select_top_candidates                                      *)

\* The places in the caller's list of the records that have a grade.
GradedIds == {k \in DOMAIN caller_copy : caller_copy[k].result = "graded"}

\* Record r ranks before record q: a higher grade, or the same grade and an
\* earlier place in the caller's list.
RanksBefore(r, q) ==
    \/ r.grade > q.grade
    \/ (r.grade = q.grade /\ r.id < q.id)

\* C11: select_top_candidates(records, n) returns exactly the records whose
\* grade is not None, stably sorted by grade descending (records of equal
\* grade in their encounter order), truncated to the first n: for n >= 0
\* its length is min(n, number of graded records), and every returned
\* grade is >= every grade of a graded record that was left out.
C11_TopCandidates ==
    (top_candidates # <<>> /\ EffectiveN(n_given, n_arg) >= 0) =>
        LET out == top_candidates[1]
            chosen == {out[k].id : k \in DOMAIN out}
        IN  /\ \A k \in DOMAIN out :
                  out[k].id \in GradedIds /\ out[k] = caller_copy[out[k].id]
            /\ \A j, k \in DOMAIN out : j < k => RanksBefore(out[j], out[k])
            /\ Len(out) = Min(EffectiveN(n_given, n_arg), Cardinality(GradedIds))
            /\ \A v \in GradedIds \ chosen :
                  \A k \in DOMAIN out :
                      /\ RanksBefore(out[k], caller_copy[v])
                      /\ out[k].grade >= caller_copy[v].grade

\* The call returned two of three records of the same grade, the two met
\* first, from a list that also holds a record without a grade.
C11_Witness ==
    /\ top_candidates # <<>>
    /\ n_given /\ n_arg = 2
    /\ Len(top_candidates[1]) = 2
    /\ top_candidates[1][1].grade = top_candidates[1][2].grade
    /\ \E v \in GradedIds :
          /\ v > top_candidates[1][2].id
          /\ caller_copy[v].grade = top_candidates[1][2].grade
    /\ \E k \in DOMAIN caller_copy : caller_copy[k].result = "none"

-----------------------------------------------------------------------------
(* Properties of the batch loops                                            *)

\* The files of the batch, in encounter order.
RECURSIVE Flatten(_)
Flatten(q) == IF q = <<>> THEN <<>> ELSE Head(q) \o Flatten(Tail(q))
BatchFiles == IF batch_kind = "email" THEN Flatten(batch_input) ELSE batch_input

\* Parsing or grading file f raises (or, for an attachment, fails to read).
FileFails(f) == f.read = "fails" \/ f.grade = "raises"

\* File f is read to a text and every stage on it succeeds.
FileSucceeds(f) == f.read = "ok" /\ f.grade = "ok"

\* C13: in batch_process and in process_resumes, when parsing or grading
\* one file raises, that candidate yields no result and every other
\* candidate of the batch is still processed: no exception leaves the
\* call, and each candidate that succeeds is in the returned results, in
\* encounter order.
C13_BatchSurvivesFailures ==
    /\ batch_status # "raised"
    /\ \A k \in DOMAIN results :
          \E f \in Range(BatchFiles) : f.file = results[k] /\ ~FileFails(f)
    /\ \A j, k \in DOMAIN results : j < k => results[j] < results[k]
    /\ (batch_kind \in {"folder", "email"} /\ batch_status = "returned") =>
          \A f \in Range(BatchFiles) :
              FileSucceeds(f) => \E k \in DOMAIN results : results[k] = f.file

\* A batch returned whose second file raised in grading and whose first
\* and third file succeeded: both are in the results.
C13_Witness ==
    /\ batch_kind \in {"folder", "email"}
    /\ batch_status = "returned"
    /\ Len(BatchFiles) >= 3
    /\ FileSucceeds(BatchFiles[1])
    /\ BatchFiles[2].grade = "raises" /\ BatchFiles[2].read = "ok"
    /\ FileSucceeds(BatchFiles[3])
    /\ results = <<BatchFiles[1].file, BatchFiles[3].file>>

-----------------------------------------------------------------------------
(* Properties of the email intake                                           *)

\* Email m was recorded in processed_emails by an earlier cycle.
ProcessedBefore(m) ==
    m.id \in Range(processed_emails) /\ m.id \notin Range(new_resumes)

\* Email m is a resume email the cycle has to hand on: it can be fetched
\* and decoded, it carries a resume, and the cycle does not skip it as
\* processed before.
ToBeReturned(m) ==
    /\ m.fetch = "ok"
    /\ m.decode = "ok"
    /\ IsResumeEmail(m)
    /\ (ignore_processed \/ ~ProcessedBefore(m))

\* C14: in check_for_new_resumes, when fetching, decoding or saving one
\* email raises, the resume emails found earlier and later in the same
\* cycle are still returned for screening.
C14_IntakeSurvivesFailures ==
    intake_status = "returned" =>
        \A k \in DOMAIN inbox :
            ToBeReturned(inbox[k]) => inbox[k].id \in Range(returned_resumes)

-----------------------------------------------------------------------------
(* Properties of the LLM grade                                              *)

\* g is an integer in [0, max_grade].
WithinGradeBound(g) == g.type = "int" /\ 0 <= g.val /\ g.val <= MaxGrade

\* C15: for every model response (GPT or mock, well-formed or not),
\* the grade grade_and_summarize returns, and the score process_resume and
\* LLMScreener.grade_resume report from it, is an integer in
\* [0, config.max_grade] = [0, 100].
C15_GradeWithinBound ==
    /\ \A k \in DOMAIN grading_result : WithinGradeBound(grading_result[k])
    /\ \A k \in DOMAIN scores : WithinGradeBound(scores[k])

-----------------------------------------------------------------------------
(* The senior software engineer scenario                                    *)

\* C16: for the scenario resume and position software_engineer the
\* skills found include python, aws, docker, kubernetes and sql,
\* years_experience is 10, the grade is above the base score 40, and
\* position_match is round(4/6*100) = 67.
C16_SeniorEngineerResume ==
    \A k \in DOMAIN folder_results :
        LET r == folder_results[k]
        IN  (r.text = SeniorEngineerResume /\ r.target_position = "software_engineer") =>
                /\ {"python", "aws", "docker", "kubernetes", "sql"} \subseteq Range(r.skills)
                /\ r.years_experience = 10 * 10
                /\ r.grade > BaseScore
                /\ r.position_match = 67

C16_Witness ==
    /\ folder_status = "returned"
    /\ \E k \in DOMAIN folder_results :
        /\ folder_results[k].text = SeniorEngineerResume
        /\ folder_results[k].target_position = "software_engineer"
        /\ folder_results[k].grade = 95

-----------------------------------------------------------------------------
(* years_experience of process_folder                                       *)

\* The text, lowercased, mentions '<N> years experience' at position i: a
\* number, whitespace, "year" or "years", whitespace, "experience".
MentionsYearsAt(t, i) ==
    /\ IsDigit(t[i])
    /\ ~(i > 1 /\ IsDigit(t[i - 1]))
    /\ \E d \in (i + 1)..Len(t) :
        /\ \A j \in i..(d - 1) : IsDigit(t[j])
        /\ IsSpace(t[d])
        /\ \E a \in (d + 1)..Len(t) :
            /\ \A j \in d..(a - 1) : IsSpace(t[j])
            /\ \E w \in {"year", "years"} :
                /\ MatchAt(t, a, Chars(w))
                /\ a + Len(w) <= Len(t)
                /\ IsSpace(t[a + Len(w)])
                /\ \E e \in (a + Len(w) + 1)..Len(t) :
                    /\ \A j \in (a + Len(w))..(e - 1) : IsSpace(t[j])
                    /\ MatchAt(t, e, Chars("experience"))

Mentions(text) ==
    LET text_lower == Lower(text)
    IN  {i \in 1..Len(text) : IsDigit(text[i]) /\ MentionsYearsAt(text_lower, i)}

\* The N of the first of the mentions at the positions ms.
FirstMentionedYears(text, ms) ==
    LET i == CHOOSE x \in ms : \A y \in ms : x <= y
    IN  IntOf(text, i, SkipDigits(text, i))

\* Those of the four-digit years that lie in [1900, 2024].
YearsInRange(years) == {y \in Range(years) : 1900 <= y /\ y <= 2024}

C19_YearsOf(r) ==
    LET y == r.years_experience
        ms == Mentions(r.text)
        years == find_year_pattern(r.text)
        in_range == YearsInRange(years)
    IN  /\ y >= 0
        /\ ms # {} => y = 10 * FirstMentionedYears(r.text, ms)
        /\ (ms = {} /\ Len(years) >= 2) =>
              /\ y <= 10 * 20
              /\ in_range # {} =>
                    \E hi \in in_range, lo \in in_range :
                        /\ \A x \in in_range : lo <= x /\ x <= hi
                        /\ y = hi - lo
        /\ (ms = {} /\ Len(years) < 2) => y = 0

\* C19: years_experience (in tenths of a year) is never negative; with an
\* explicit '<N> years experience' mention it is the N of the first mention;
\* otherwise, with at least two four-digit years, it is (max - min) / 10
\* over the years in [1900, 2024] and at most 20; otherwise it is 0.
C19_YearsExperience == \A k \in DOMAIN folder_results : C19_YearsOf(folder_results[k])

\* A resume with two mentions of different numbers has been analysed.
C19_Witness ==
    /\ folder_status = "returned"
    /\ \E k \in DOMAIN folder_results :
          /\ Cardinality(Mentions(folder_results[k].text)) = 2
          /\ folder_results[k].years_experience = 50
          /\ last_year_match(Lower(folder_results[k].text)) = 12

-----------------------------------------------------------------------------
(* The skill lists                                                          *)

\* The fixed skill vocabulary of each screener.
RuleBasedVocabulary == {InitSkillWeights[i].skill : i \in DOMAIN InitSkillWeights}
LLMVocabulary == Range(CommonSkills)

\* skills holds only tokens of the vocabulary, none twice, each of them
\* occurring in the text (compared in lower case, as the tokens are).
SkillListOf(skills, text, vocabulary) ==
    LET text_lower == Lower(text)
    IN  /\ Range(skills) \subseteq vocabulary
        /\ DuplicateFree(skills)
        /\ \A k \in DOMAIN skills : Contains(text_lower, Chars(skills[k]))

\* C17: the skill list returned by grade_resume and by
\* _extract_skills_rule_based contains only tokens of that screener's fixed
\* vocabulary, no token twice, and a token only if it occurs in the text.
C17_SkillLists ==
    /\ \A i \in DOMAIN graded :
          SkillListOf(graded[i].skills_found, texts[i], RuleBasedVocabulary)
    /\ \A i \in DOMAIN extracted :
          SkillListOf(extracted[i], texts[i], LLMVocabulary)

\* A call on a text that names some skills of the vocabulary and a required
\* skill it does not name has returned.
C17_Witness ==
    \E i \in DOMAIN graded :
        /\ Len(graded[i].skills_found) >= 3
        /\ \E k \in Range(RequiredSkills(position_requirements, position)) :
              ~Contains(Lower(texts[i]), Chars(k))

-----------------------------------------------------------------------------
(* The education level                                                      *)

\* The text holds one of the keywords, in any case.
HasKeyword(text, kws) == \E k \in kws : Contains(Lower(text), Chars(k))

DoctorateKeywords == {"phd", "doctorate"}

\* level is the level of the text in the priority order doctorate >
\* master's > bachelor's > none, for the master's keywords ms and the
\* bachelor's keywords bs; levels are the four values.
LevelByPriority(level, text, ms, bs, levels) ==
    /\ level \in Range(levels)
    /\ HasKeyword(text, DoctorateKeywords) => level = levels[1]
    /\ (~HasKeyword(text, DoctorateKeywords) /\ HasKeyword(text, ms)) => level = levels[2]
    /\ (~HasKeyword(text, DoctorateKeywords) /\ ~HasKeyword(text, ms) /\ HasKeyword(text, bs))
          => level = levels[3]
    /\ (~HasKeyword(text, DoctorateKeywords) /\ ~HasKeyword(text, ms) /\ ~HasKeyword(text, bs))
          => level = levels[4]

\* C18: the education level follows the priority doctorate > master's >
\* bachelor's > none: a doctorate keyword decides whatever else is present,
\* master's wins over bachelor's, and every text gets exactly one level, in
\* the degree points of grade_resume (15, 10, 7, and 5 or 0 for none) and in
\* the education_level of the web wrapper.
C18_EducationPriority ==
    \A k \in DOMAIN analysis :
        ~analysis[k].error =>
            /\ LevelByPriority(analysis[k].education_level, web_text,
                               {"master", "ms"}, {"bachelor", "bs"},
                               <<"PhD", "Master's", "Bachelor's", "Not specified">>)
            /\ LevelByPriority(IF analysis[k].graded.education_degree = 5 THEN 0
                               ELSE analysis[k].graded.education_degree,
                               web_text,
                               {"master", "ms", "m.sc"}, {"bachelor", "bs", "b.tech"},
                               <<15, 10, 7, 0>>)

\* A text with a doctorate, a master's and a bachelor's keyword has been
\* analysed.
C18_Witness ==
    /\ web_status = "returned"
    /\ \E k \in DOMAIN analysis :
          /\ analysis[k].education_level = "PhD"
          /\ analysis[k].graded.education_degree = 15
          /\ Contains(Lower(web_text), Chars("master"))
          /\ Contains(Lower(web_text), Chars("bachelor"))

-----------------------------------------------------------------------------
(* The skills component                                                     *)

\* C20: the skills component added to the score,
\* (skills_score / max_possible_skills) * 30, never exceeds 30 points, for
\* every set of recognised skills and every target position.
C20_SkillsComponentCap ==
    \A i \in DOMAIN graded : graded[i].skills_score * 30 <= 30 * graded[i].den

-----------------------------------------------------------------------------
(* The capped buckets                                                       *)

\* C21: every capped bucket of grade_resume adds at most its maximum and at
\* least 0 to the score: experience at most 25, education at most 15,
\* company reputation at most 10, certifications at most 5, achievements at
\* most 10.
C21_CappedBuckets ==
    \A k \in DOMAIN analysis :
        ~analysis[k].error =>
            /\ analysis[k].graded.experience \in 0..25
            /\ analysis[k].graded.education \in 0..15
            /\ analysis[k].graded.company \in 0..10
            /\ analysis[k].graded.certification \in 0..5
            /\ analysis[k].graded.achievement \in 0..10

\* A text whose experience, company and achievement parts each count more
\* than the cap has been graded.
C21_Witness ==
    /\ web_status = "returned"
    /\ experience_score(web_text, Lower(web_text)) > 25
    /\ company_score(Lower(web_text)) > 10
    /\ achievement_count(Lower(web_text)) * 2 > 10
    /\ \E k \in DOMAIN analysis :
          /\ analysis[k].graded.experience = 25
          /\ analysis[k].graded.company = 10
          /\ analysis[k].graded.achievement = 10

-----------------------------------------------------------------------------
(* Processed emails over the life of an agent                               *)

\* C22: with ignore_processed = False, an email id that the agent has
\* recorded as processed before is never returned again by
\* check_for_new_resumes, in a later cycle of the same agent or after a
\* restart that reloads processed_emails.json, whatever normal and forced
\* cycles came before.
C22_NeverReturnedAgain ==
    ~cycle_forced => Range(cycle_returned) \cap known_before = {}

\* C23: every email id that check_for_new_resumes records through
\* save_processed_email during a call is in the list that this call returns,
\* also when a later email of the cycle raises.
C23_RecordedAreReturned ==
    Range(cycle_saved) \subseteq Range(cycle_returned)

-----------------------------------------------------------------------------
(* Properties of run_once                                                   *)

\* The statuses, best first.
StatusRank(status) ==
    CASE status = "Accepted" -> 2
      [] status = "Needs Review" -> 1
      [] status = "Rejected" -> 0

\* C24: with m the configured minimum_score, the status of a result of
\* process_resumes is Accepted exactly when its grade is at least m + 10,
\* Needs Review exactly when m <= grade < m + 10 and Rejected exactly when
\* grade < m; the template is the one of the status; and of two results the
\* one with the higher grade never has the worse status.
C24_StatusFromGrade ==
    /\ \A k \in DOMAIN run_results :
          LET r == run_results[k]
          IN  /\ r.status = "Accepted" <=> r.score >= minimum_score + 10
              /\ r.status = "Needs Review" <=>
                     (minimum_score <= r.score /\ r.score < minimum_score + 10)
              /\ r.status = "Rejected" <=> r.score < minimum_score
              /\ r.template = (CASE r.status = "Accepted" -> "accepted"
                                 [] r.status = "Needs Review" -> "needs_review"
                                 [] r.status = "Rejected" -> "rejected")
    /\ \A j, k \in DOMAIN run_results :
          run_results[j].score > run_results[k].score =>
              StatusRank(run_results[j].status) >= StatusRank(run_results[k].status)

\* A run has processed a resume on each threshold and on each side of them.
C24_Witness ==
    /\ run_status = "returned"
    /\ \E j, k \in DOMAIN run_results :
          /\ run_results[j].score = minimum_score + 10
          /\ run_results[j].status = "Accepted"
          /\ run_results[k].score = minimum_score + 9
          /\ run_results[k].status = "Needs Review"
    /\ \E j, k \in DOMAIN run_results :
          /\ run_results[j].score = minimum_score
          /\ run_results[j].status = "Needs Review"
          /\ run_results[k].score = minimum_score - 1
          /\ run_results[k].status = "Rejected"

\* The number of results marked as sent.
RECURSIVE SentCount(_)
SentCount(res) ==
    IF res = <<>> THEN 0
    ELSE (IF Head(res).sent THEN 1 ELSE 0) + SentCount(Tail(res))

\* C25: in the summary of a completed run, accepted + needs_review +
\* rejected equals total_resumes; responses_sent is the number of results
\* marked as sent and is at most total_resumes; a result is marked as sent
\* only if send_email_response returned True for it; and responses_sent is
\* 0 whenever send_responses is False or automatic_response is off.
C25_SummaryCounts ==
    (run_status = "returned" /\ summary.status = "completed") =>
        /\ summary.accepted + summary.needs_review + summary.rejected
               = summary.total_resumes
        /\ summary.total_resumes = Len(run_results)
        /\ summary.responses_sent = SentCount(run_results)
        /\ summary.responses_sent <= summary.total_resumes
        /\ \A k \in DOMAIN run_results :
              run_results[k].sent => (k \in DOMAIN deliveries /\ deliveries[k])
        /\ (~send_responses \/ ~automatic_response) => summary.responses_sent = 0

\* A completed run with the three statuses, one response delivered and one
\* that failed.
C25_Witness ==
    /\ run_status = "returned"
    /\ summary.status = "completed"
    /\ summary.accepted > 0
    /\ summary.needs_review > 0
    /\ summary.rejected > 0
    /\ summary.responses_sent > 0
    /\ summary.responses_sent < summary.total_resumes
    /\ \E k \in DOMAIN deliveries : ~deliveries[k]

-----------------------------------------------------------------------------
(* Properties of the hiring decision                                        *)

\* C26: the candidate that make_hiring_decision chooses through
\* _make_local_decision has a grade at least as high as the grade of every
\* other candidate of the list, for every non-empty list of batch_process.
C26_LocalDecisionPicksHighest ==
    (decision_status = "returned" /\ decision.method = "local_heuristic") =>
        \A k \in DOMAIN candidates : decision.selected[1].grade >= candidates[k].grade

\* C27: make_decision does not raise on an empty list: the simple ranking
\* returns a decision without selected candidates, the local heuristic
\* returns the entry "No candidates to evaluate".
C27_EmptyListNeverRaises ==
    (candidates = <<>> /\ decision_config.has_get /\ decision_status # "called") =>
        /\ decision_status = "returned"
        /\ ~decision_config.use_llm_for_decision =>
               (decision.method = "simple_ranking" /\ decision.selected = <<>>)
        /\ (decision_config.use_llm_for_decision /\ ~decision_config.use_gpt) =>
               decision.error = "No candidates to evaluate"

-----------------------------------------------------------------------------
(* Properties of the way to the grader                                      *)

\* C28: the grader only ever receives the filtered_text of the classifier
\* and never the raw text, in LLMScreener.process_resume as well as in the
\* wrapper grade_resume that the EmailAgent uses.
C28_GraderSeesFilteredText ==
    pipeline_status = "graded" =>
        grader_input = classifier_process_resume(sentences, use_mock,
                                                 remove_personal_info).filtered_text

\* The sentences of a classification whose category is not sensitive, in
\* their order.
NotSensitive(classified) ==
    LET kept == SelectSeq(classified, LAMBDA c : c.category \notin sensitive_categories)
    IN  [k \in DOMAIN kept |-> kept[k].sentence]

\* The sum of the counts of a category statistics.
RECURSIVE SumCounts(_, _)
SumCounts(stats, cats) ==
    IF cats = {} THEN 0
    ELSE LET c == CHOOSE x \in cats : TRUE
         IN  stats[c] + SumCounts(stats, cats \ {c})

\* C29: with remove_personal_info enabled, process_resume of the classifier
\* returns as filtered_text exactly the sentences whose category is not in
\* sensitive_categories, in their order, joined by blanks;
\* filtered_sentences is at most total_sentences; the counts of
\* category_statistics add up to total_sentences; and with
\* remove_personal_info disabled every sentence is kept.
C29_FilteredText ==
    pipeline_status = "classified" =>
        /\ classification.total_sentences = Len(sentences)
        /\ \A k \in DOMAIN sentences :
              classification.classified_sentences[k].sentence = sentences[k].text
        /\ remove_personal_info =>
              /\ classification.filtered_text
                     = JoinSpaces(NotSensitive(classification.classified_sentences))
              /\ classification.filtered_sentences
                     = Len(NotSensitive(classification.classified_sentences))
        /\ classification.filtered_sentences <= classification.total_sentences
        /\ SumCounts(classification.category_statistics,
                     DOMAIN classification.category_statistics)
               = classification.total_sentences
        /\ ~remove_personal_info =>
              /\ classification.filtered_text = raw_text(sentences)
              /\ classification.filtered_sentences = classification.total_sentences

\* A resume with a sentence of personal information between two others has
\* been classified and filtered.
C29_Witness ==
    /\ pipeline_status = "classified"
    /\ remove_personal_info
    /\ Len(sentences) = 3
    /\ classification.classified_sentences[2].category \in sensitive_categories
    /\ classification.classified_sentences[1].category \notin sensitive_categories
    /\ classification.classified_sentences[3].category \notin sensitive_categories
    /\ classification.filtered_sentences = 2
    /\ classification.filtered_text = sentences[1].text \o Chars(" ") \o sentences[3].text

-----------------------------------------------------------------------------
(* The grader and the text of the response                                  *)

\* C30: grade_and_summarize never raises because of the text of the
\* response: for a response that is no JSON, that is fenced JSON, or that is
\* valid JSON but no object, it returns its record, falling back to the
\* grade 0 of "Error parsing agent response" where the text gives none.
C30_GraderNeverRaises ==
    /\ grader_status # "raised"
    /\ (grader_status = "returned" /\ response.body.kind # "object") =>
           grading_result = <<IntGrade(0)>>

====
